---- MODULE Spec2Model ----
(***************************************************************************)
(* Download orchestration and retention of the video-downloader bot.       *)
(*                                                                         *)
(* The model follows app/services/youtube_service.py (get_existing_download,*)
(* download_video, start_new_download, update_download_statistics) and     *)
(* app/utils/funcs.py (cleanup_all_files, cleanup_scheduler).  Every await  *)
(* of a handler is a point where another handler or the cleanup task may run,*)
(* so each request advances in steps between its awaits.  The resolver     *)
(* (extract_video_id, is_valid_url) is modelled on URLs as sequences of    *)
(* characters, with the patterns of the source and the matching of         *)
(* re.search; the catalog (get_video_info, get_or_create_video) on         *)
(* concurrent calls.                                                       *)
(*                                                                         *)
(* The ORM models (app/models/download_history.py, user.py, video.py) and  *)
(* the download handler that calls the service are not part of the sources;*)
(* their operations (mark_as_started, mark_as_completed, mark_as_failed,   *)
(* increment_download_count, increment_downloads, storing the remote file  *)
(* reference) are modelled from the specification, as single writes of the *)
(* fields it names.                                                        *)
(***************************************************************************)
EXTENDS Integers, Sequences, FiniteSets, TLC

\* ------------------------------------------------------------------ bounds

\* Number of download requests (handler invocations) in one behaviour.
MaxRequests == 2

\* Number of calls of get_or_create_video in one behaviour.
MaxCalls == 2

\* Number of events that pass SubscriptionMiddleware.
MaxEvents == 2

\* Number of /set_subscription and /disable_subscription commands.
MaxCommands == 2

\* Largest number of users a broadcast goes to.
MaxTargets == 3

\* ------------------------------------------------------- program constants

\* Python None, for the nullable columns (file_path, telegram_file_id,
\* file_size) and for "no existing download".
Null == 0

\* A key that a dictionary of the extraction library does not have, and a
\* key whose value is None, for the numeric fields filesize, tbr and duration.
Missing == -2
NoValue == -1

\* download.user of a row that has no user, and data.get("user") of an event
\* whose data carry no user.
NoUser == "None"

\* settings.max_file_size
max_file_size == 50 * 1024 * 1024

\* settings.max_video_duration
max_video_duration == 3600

\* DownloadStatus
PENDING     == "pending"
DOWNLOADING == "downloading"
COMPLETED   == "completed"
FAILED      == "failed"
CANCELLED   == "cancelled"

DownloadStatus == {PENDING, DOWNLOADING, COMPLETED, FAILED, CANCELLED}

\* error_message of a record that has none
NoError == ""

\* ------------------------------------------------------------ input domains

Users  == {"u1", "u2"}
Videos == {"v1", "v2"}

\* The users that may send request r.  Users differ in nothing but their
\* name, so the first request is taken to come from u1.
UsersOf(r) == IF r = 1 THEN {"u1"} ELSE Users

\* The media a request may ask for: one video in both formats, and another
\* video.
Tuples == {<<"v1", "720", "mp4">>, <<"v1", "720", "mp3">>, <<"v2", "720", "mp4">>}

\* Size in bytes of the file the extraction library writes for a medium.
MediaSize(t) == IF t[3] = "mp3" THEN 1 ELSE 2

\* file_size argument of download_video: the size of the chosen format in
\* the format list of the video.  The format list of v2 gives a size over
\* settings.max_file_size, that of v1 the default.
RequestedSize(t) == IF t[1] = "v2" THEN max_file_size + 1 ELSE max_file_size

Requests == 1..MaxRequests

\* Filesystem holding the download directory: capacity, and bytes used by
\* everything that is not a downloaded file.
DiskTotal == 10
DiskOther == 5

\* Usage percentage at which the threshold sweep is meant to start, and the
\* percentage of the capacity it is meant to bring the usage down to.
UsageThreshold == 80
TargetPercent  == 70

VARIABLES
    downloads,   \* DownloadHistory table: record id (index) -> row
    videos,      \* Video table: video -> row (the columns downloads touch)
    users,       \* User table: user -> row (the aggregates downloads touch)
    disk,        \* local files: path -> size in bytes
    req,         \* the download requests: handler position and locals
    fetches,     \* Tuples -> number of calls of ydl.download
    sweep,       \* the cleanup_scheduler task: position and locals
    clock,       \* logical time, for completed_at
    trail,       \* record id -> the statuses the row has held, in order
    cleaned,     \* ids of the rows whose file_path a sweep has set to None
    resolver,    \* a caller of extract_video_id and is_valid_url: url and results
    catalog,     \* Video table as get_or_create_video sees it: sequence of rows
    calls,       \* the calls of get_or_create_video: position and locals
    stats,       \* a call of get_download_stats: position and locals
    report,      \* a call of generate_stats_file: its rows and its results
    formats,     \* a call of _extract_formats: its argument and its result
    subscription_config,  \* funcs._subscription_config (the fields the gate reads)
    processed_users,      \* funcs.processed_users
    events,      \* the events passing SubscriptionMiddleware: position and locals
    counted,     \* user -> times the user raised current_count since the last set
    commands,    \* number of admin subscription commands handled
    broadcast    \* a call of process_broadcast_post: position and locals

vars == <<downloads, videos, users, disk, req, fetches, sweep, clock, trail, cleaned,
          resolver, catalog, calls, stats, report, formats, subscription_config,
          processed_users, events, counted, commands, broadcast>>

\* The state of the callers of the statistics and of _extract_formats.
readerVars == <<stats, report, formats>>

\* The state of the subscription gate.
gateVars == <<subscription_config, processed_users, events, counted, commands>>

\* The state of the subscription gate and of the broadcast handler.
botVars == <<gateVars, broadcast>>

\* The state of the video catalog, of the callers of the resolver and of the
\* callers of the statistics, which the download requests and the cleanup
\* task leave alone.
catalogVars == <<resolver, catalog, calls, readerVars, botVars>>

\* The state the download requests and the cleanup task work on.
downloadVars == <<downloads, videos, users, disk, req, fetches, sweep, clock, trail,
                  cleaned>>

Tuple(r) == <<r.video, r.quality, r.format_type>>

RecordIds == 1..Len(downloads)

\* ----------------------------------------------------------------- helpers

RECURSIVE SumSizes(_, _)
SumSizes(f, S) ==
    IF S = {} THEN 0
    ELSE LET p == CHOOSE x \in S : TRUE IN f[p] + SumSizes(f, S \ {p})

\* shutil.disk_usage: (total, used, free) of the filesystem.
DiskUsed(d) == DiskOther + SumSizes(d, DOMAIN d)

UsagePercent(used) == (used * 100) \div DiskTotal

\* bytes the threshold sweep is meant to free: used - total * target fraction
BytesToFree(used) == used - (DiskTotal * TargetPercent) \div 100

HasDurablePointer(row) == row.file_path # Null \/ row.telegram_file_id # Null

\* Removes path p from the local files.
RemoveFile(d, p) == [x \in (DOMAIN d) \ {p} |-> d[x]]

\* Adds file p of size s to the local files.
AddFile(d, p, s) == [x \in (DOMAIN d) \cup {p} |-> IF x = p THEN s ELSE d[x]]

\* ------------------------------------------------------------ initial state

NoRequest ==
    [pc |-> "idle", user |-> "u1", video |-> "v1", quality |-> "720",
     format_type |-> "mp4", file_size |-> max_file_size,
     existing |-> Null, existing_tg |-> Null, existing_status |-> PENDING,
     existing_size |-> Null, video_file_size |-> Null,
     download |-> Null, result |-> Null, fetched |-> FALSE,
     after_completed |-> FALSE, counted |-> FALSE, temp_dir |-> Null]

\* get_download_stats not called yet.
NoStats ==
    [pc |-> "idle", total_downloads |-> 0, completed_downloads |-> 0,
     failed_downloads |-> 0, today_downloads |-> 0, success_rate |-> <<0, 1>>,
     popular_videos |-> <<>>]

\* generate_stats_file not called yet.
NoReport ==
    [pc |-> "idle", rows |-> <<>>, user_stats |-> <<>>, user_downloads |-> <<>>,
     sorted_users |-> <<>>, total_downloads |-> 0, total_completed |-> 0,
     total_failed |-> 0]

\* _extract_formats not called yet.
NoFormats ==
    [pc |-> "idle",
     info |-> [has_formats |-> FALSE, formats |-> <<>>, duration |-> Missing],
     result |-> <<>>]

\* The events that pass SubscriptionMiddleware.
Events == 1..MaxEvents

\* _subscription_config as the module defines it: the gate is off. The
\* channel name and URL only go into the texts shown and are left out.
NoSubscription ==
    [active |-> FALSE, channel_id |-> Null, required_subscribers |-> 0,
     current_count |-> 0]

\* An event that has not reached SubscriptionMiddleware yet. open, known and
\* member are what the tests of the middleware found: the gate inactive or
\* without a channel, the user in processed_users, and the result of the
\* latest check_user_subscription.
NoEvent ==
    [pc |-> "idle", kind |-> "", user |-> NoUser, is_admin |-> FALSE,
     bot |-> FALSE, open |-> FALSE, known |-> FALSE, member |-> FALSE,
     invoked |-> FALSE]

\* process_broadcast_post not called yet; the admin has sent /broadcast, so
\* the FSM state is BroadcastStates.waiting_for_post.
NoBroadcast ==
    [pc |-> "idle", state |-> "waiting_for_post",
     message |-> [kind |-> "", text |-> FALSE], users |-> <<>>, next |-> 1, sent_count |-> 0, failed_count |-> 0,
     blocked_count |-> 0, attempts |-> <<>>]

Init ==
    /\ downloads = <<>>
    /\ videos = [v \in Videos |->
                    [download_count |-> 0, file_size |-> Null,
                     quality |-> "", format_id |-> ""]]
    /\ users = [u \in Users |-> [total_downloads |-> 0, total_download_size |-> 0]]
    /\ disk = <<>>
    /\ req = [r \in Requests |-> NoRequest]
    /\ fetches = [t \in Tuples |-> 0]
    /\ sweep = [pc |-> "sleep", pending |-> {}, cleaned_count |-> 0,
                freed |-> 0, start_used |-> 0, existing |-> {}, failed |-> FALSE,
                start_clock |-> 0]
    /\ clock = 0
    /\ trail = <<>>
    /\ cleaned = {}
    /\ resolver = [pc |-> "idle", url |-> <<>>, video_id |-> <<>>, valid |-> FALSE,
                   applied |-> {}]
    /\ catalog = <<>>
    /\ calls = [c \in 1..MaxCalls |->
                  [pc |-> "idle", url |-> <<>>, video_id |-> <<>>, result |-> Null,
                   hit |-> FALSE, fetched |-> FALSE,
                   info |-> [kind |-> "none", duration |-> 0, upload_date |-> <<>>],
                   created |-> FALSE, caught |-> "", raised |-> FALSE,
                   started_after |-> {}]]
    /\ stats = NoStats
    /\ report = NoReport
    /\ formats = NoFormats
    /\ subscription_config = NoSubscription
    /\ processed_users = {}
    /\ events = [e \in Events |-> NoEvent]
    /\ counted = [u \in Users |-> 0]
    /\ commands = 0
    /\ broadcast = NoBroadcast

\* ------------------------------------------------- DownloadHistory methods

\* DownloadHistory.create(user, video, quality, format_type, status=PENDING)
NewDownload(u, v, q, f) ==
    [user |-> u, video |-> v, quality |-> q, format_type |-> f,
     status |-> PENDING, file_path |-> Null, telegram_file_id |-> Null,
     file_size |-> Null, error_message |-> NoError, completed_at |-> Null]

\* download.mark_as_started()
mark_as_started(row) == [row EXCEPT !.status = DOWNLOADING]

\* download.mark_as_completed(file_path, file_size)
mark_as_completed(row, path, size, now) ==
    [row EXCEPT !.status = COMPLETED, !.file_path = path, !.file_size = size,
                !.completed_at = now]

\* mark_as_failed writing the reserved status instead of FAILED.
mark_as_cancelled(row, msg) ==
    [row EXCEPT !.status = CANCELLED, !.error_message = msg]

\* download.mark_as_failed(error_message)
mark_as_failed(row, msg) ==
    [row EXCEPT !.status = FAILED, !.error_message = msg]

\* video.increment_download_count()
increment_download_count(vrow) ==
    [vrow EXCEPT !.download_count = @ + 1]

\* user.increment_downloads(file_size)
increment_downloads(urow, size) ==
    [urow EXCEPT !.total_downloads = @ + 1, !.total_download_size = @ + size]

\* The statuses of row i, with the new status added when it differs.
Trailed(i, status) ==
    IF trail[i][Len(trail[i])] = status THEN trail
    ELSE [trail EXCEPT ![i] = Append(@, status)]

\* ------------------------------------------------------- download requests

\* get_existing_download: the rows of (video, quality, format_type) that are
\* COMPLETED and have file_path or telegram_file_id set.  The query has no
\* ordering, so first() returns any of them.
GetExistingDownload(v, q, f) ==
    {i \in RecordIds :
        /\ downloads[i].video = v
        /\ downloads[i].quality = q
        /\ downloads[i].format_type = f
        /\ downloads[i].status = COMPLETED
        /\ (downloads[i].file_path # Null \/ downloads[i].telegram_file_id # Null)}

\* Some download of the tuple is COMPLETED in the table.
HasCompleted(v, q, f) ==
    \E i \in RecordIds :
        /\ <<downloads[i].video, downloads[i].quality, downloads[i].format_type>> = <<v, q, f>>
        /\ downloads[i].status = COMPLETED

\* The handler receives a request of user u for (v, q, f), s being the size of
\* the chosen format, and looks for a download to reuse.  The existing row is
\* held as an in-memory object: its fields are those read here.
Lookup(r, u, v, q, f, s) ==
    /\ req[r].pc = "idle"
    /\ r > 1 => req[r - 1].pc # "idle"
    /\ LET found == GetExistingDownload(v, q, f) IN
       \E e \in (IF found = {} THEN {Null} ELSE found) :
          req' = [req EXCEPT ![r] =
                    [@ EXCEPT !.pc = "looked", !.user = u, !.video = v, !.quality = q,
                              !.format_type = f, !.file_size = s,
                              !.existing = e,
                              !.existing_tg = IF e = Null THEN Null
                                              ELSE downloads[e].telegram_file_id,
                              !.existing_status = IF e = Null THEN PENDING
                                                  ELSE downloads[e].status,
                              !.existing_size = IF e = Null THEN Null
                                                ELSE downloads[e].file_size,
                              !.video_file_size = videos[v].file_size,
                              !.after_completed = HasCompleted(v, q, f)]]
    /\ UNCHANGED <<downloads, videos, users, disk, fetches, sweep, clock, trail, cleaned, catalogVars>>

\* `if existing_download:` of download_video
TakesReusePath(r) == req[r].existing # Null

\* DownloadVideoReuse with the copy of the three fields left out: the new row
\* is saved as it was created.
DownloadVideoReuseNotCopied(r) ==
    /\ req[r].pc = "looked"
    /\ TakesReusePath(r)
    /\ downloads' = Append(downloads, NewDownload(req[r].user, req[r].video,
                                                   req[r].quality, req[r].format_type))
    /\ trail' = Append(trail, <<PENDING>>)
    /\ req' = [req EXCEPT ![r].pc = "reuse_stats", ![r].download = Len(downloads) + 1]
    /\ UNCHANGED <<videos, users, disk, fetches, sweep, clock, cleaned, catalogVars>>

\* download_video, reuse branch: create the row as PENDING, copy
\* telegram_file_id, status and file_size of the existing download onto it
\* and save these three fields.  No other download request and no cleanup
\* pass reads a PENDING row, so the two writes are one step.
DownloadVideoReuse(r) ==
    /\ req[r].pc = "looked"
    /\ TakesReusePath(r)
    /\ LET created == NewDownload(req[r].user, req[r].video, req[r].quality,
                                  req[r].format_type)
       IN
       /\ downloads' = Append(downloads,
                [created EXCEPT !.telegram_file_id = req[r].existing_tg,
                                !.status = req[r].existing_status,
                                !.file_size = req[r].existing_size])
       /\ trail' = Append(trail, <<PENDING, req[r].existing_status>>)
    /\ req' = [req EXCEPT ![r].pc = "reuse_stats", ![r].download = Len(downloads) + 1]
    /\ UNCHANGED <<videos, users, disk, fetches, sweep, clock, cleaned, catalogVars>>

\* Outcomes of update_download_statistics: both increments are written, or
\* the store raises in the first or in the second of them.
StatsOutcomes == {"ok", "video_fails", "user_fails"}

\* update_download_statistics(video, user, file_size): the Video table after it
StatsVideos(v, outcome) ==
    IF outcome = "video_fails" THEN videos
    ELSE [videos EXCEPT ![v] = increment_download_count(@)]

\* update_download_statistics(video, user, file_size): the User table after it
StatsUsers(u, size, outcome) ==
    IF outcome = "ok" THEN [users EXCEPT ![u] = increment_downloads(@, size)]
    ELSE users

\* download_video, reuse branch: update the statistics with the file_size
\* argument and return the existing download.  Nothing catches an exception
\* here: it reaches the caller.
ReuseStats(r, outcome) ==
    /\ req[r].pc = "reuse_stats"
    /\ videos' = StatsVideos(req[r].video, outcome)
    /\ users' = StatsUsers(req[r].user, req[r].file_size, outcome)
    /\ req' = [req EXCEPT ![r] =
                 IF outcome = "ok"
                 THEN [@ EXCEPT !.pc = "done", !.result = req[r].existing, !.counted = TRUE]
                 ELSE [@ EXCEPT !.pc = "raised"]]
    /\ UNCHANGED <<downloads, disk, fetches, sweep, clock, trail, cleaned, catalogVars>>

\* The except branch of start_new_download: mark_as_failed(str(e)) and
\* return the download.
Fail(r, msg) ==
    /\ LET i == req[r].download IN
       /\ downloads' = [downloads EXCEPT ![i] = mark_as_failed(@, msg)]
       /\ trail' = Trailed(i, FAILED)
    /\ req' = [req EXCEPT ![r].pc = "done", ![r].result = req[r].download]

\* The download directory itself in place of a directory per attempt.
download_path(i) == -1

\* tempfile.mkdtemp(dir=self.download_path) of the attempt of row i: a new
\* directory under the download directory, with a name no call has
\* returned before.  Directories are named after the row of their attempt.
mkdtemp(i) == i

\* `if file_size > settings.max_file_size` never true: no size is refused.
TooLargeNever(r) == FALSE

\* `if file_size > settings.max_file_size: raise ValueError`
TooLarge(r) == req[r].file_size > max_file_size

\* StartNewDownload with mark_as_started left out: the row is still PENDING
\* while the extraction library runs.
StartNewDownloadNotStarted(r) ==
    /\ req[r].pc = "looked"
    /\ ~TakesReusePath(r)
    /\ LET created == NewDownload(req[r].user, req[r].video, req[r].quality,
                                  req[r].format_type)
           i == Len(downloads) + 1
       IN
       IF TooLarge(r)
       THEN /\ downloads' = Append(downloads, mark_as_failed(created, "file too large"))
            /\ trail' = Append(trail, <<PENDING, FAILED>>)
            /\ req' = [req EXCEPT ![r].pc = "done", ![r].download = i, ![r].result = i,
                                  ![r].temp_dir = mkdtemp(i)]
            /\ UNCHANGED fetches
       ELSE /\ downloads' = Append(downloads, created)
            /\ trail' = Append(trail, <<PENDING>>)
            /\ fetches' = [fetches EXCEPT ![Tuple(req[r])] = @ + 1]
            /\ req' = [req EXCEPT ![r].pc = "fetching", ![r].download = i,
                                  ![r].fetched = TRUE, ![r].temp_dir = mkdtemp(i)]
    /\ UNCHANGED <<videos, users, disk, sweep, clock, cleaned, catalogVars>>

\* download_video without an existing download, and start_new_download up to
\* its first await that another request can observe: create the row as
\* PENDING, mark_as_started, then either the requested size is over the limit
\* and the attempt fails before the extraction library is called, or
\* ydl.download([video.url]) is handed to the executor.  No other download
\* request and no cleanup pass reads a PENDING or DOWNLOADING row, so these
\* writes are one step.
StartNewDownload(r) ==
    /\ req[r].pc = "looked"
    /\ ~TakesReusePath(r)
    /\ LET created == NewDownload(req[r].user, req[r].video, req[r].quality,
                                  req[r].format_type)
           i == Len(downloads) + 1
       IN
       IF TooLarge(r)
       THEN /\ downloads' = Append(downloads,
                    mark_as_failed(mark_as_started(created), "file too large"))
            /\ trail' = Append(trail, <<PENDING, DOWNLOADING, FAILED>>)
            /\ req' = [req EXCEPT ![r].pc = "done", ![r].download = i, ![r].result = i,
                                  ![r].temp_dir = mkdtemp(i)]
            /\ UNCHANGED fetches
       ELSE /\ downloads' = Append(downloads, mark_as_started(created))
            /\ trail' = Append(trail, <<PENDING, DOWNLOADING>>)
            /\ fetches' = [fetches EXCEPT ![Tuple(req[r])] = @ + 1]
            /\ req' = [req EXCEPT ![r].pc = "fetching", ![r].download = i,
                                  ![r].fetched = TRUE, ![r].temp_dir = mkdtemp(i)]
    /\ UNCHANGED <<videos, users, disk, sweep, clock, cleaned, catalogVars>>

\* The extraction library raises, or returns having written no file.
FetchErrors == {"extractor error", "file was not downloaded"}

FetchFails(r, msg) ==
    /\ req[r].pc = "fetching"
    /\ Fail(r, msg)
    /\ UNCHANGED <<videos, users, disk, fetches, sweep, clock, cleaned, catalogVars>>

\* The extraction library has written one file into the temporary
\* directory of this attempt, and the first file found in that directory is
\* recorded: mark_as_completed(file_path, actual_file_size).  A directory
\* holds one file, so the path of the file is given as its directory.  The
\* file fits on the disk (the library raises when the disk is full).
FetchCompletes(r) ==
    /\ req[r].pc = "fetching"
    /\ DiskUsed(disk) + MediaSize(Tuple(req[r])) <= DiskTotal
    /\ LET i == req[r].download IN
       /\ disk' = AddFile(disk, req[r].temp_dir, MediaSize(Tuple(req[r])))
       /\ downloads' = [downloads EXCEPT
                ![i] = mark_as_completed(@, req[r].temp_dir, MediaSize(Tuple(req[r])),
                                         clock + 1)]
       /\ trail' = Trailed(i, COMPLETED)
    /\ clock' = clock + 1
    /\ req' = [req EXCEPT ![r].pc = "completed"]
    /\ UNCHANGED <<videos, users, fetches, sweep, cleaned, catalogVars>>

\* start_new_download after mark_as_completed: update the statistics with
\* the actual size, then `if not video.file_size` on the Video object the
\* caller passed in.  An exception of the store is caught by the except
\* branch.
FreshStats(r, outcome) ==
    /\ req[r].pc = "completed"
    /\ videos' = StatsVideos(req[r].video, outcome)
    /\ users' = StatsUsers(req[r].user, downloads[req[r].download].file_size, outcome)
    /\ IF outcome = "ok"
       THEN /\ req' = [req EXCEPT ![r] =
                        IF req[r].video_file_size = Null
                        THEN [@ EXCEPT !.pc = "video_save", !.counted = TRUE]
                        ELSE [@ EXCEPT !.pc = "done", !.counted = TRUE,
                                       !.result = req[r].download]]
            /\ UNCHANGED <<downloads, trail>>
       ELSE Fail(r, "store error")
    /\ UNCHANGED <<disk, fetches, sweep, clock, cleaned, catalogVars>>

\* start_new_download: video.save(update_fields=[file_size, quality,
\* format_id]) with the values of this download, then return the download.
VideoSave(r, ok) ==
    /\ req[r].pc = "video_save"
    /\ IF ok
       THEN /\ videos' = [videos EXCEPT
                    ![req[r].video].file_size = downloads[req[r].download].file_size,
                    ![req[r].video].quality = req[r].quality,
                    ![req[r].video].format_id = req[r].format_type]
            /\ req' = [req EXCEPT ![r].pc = "done", ![r].result = req[r].download]
            /\ UNCHANGED <<downloads, trail>>
       ELSE /\ Fail(r, "store error")
            /\ UNCHANGED videos
    /\ UNCHANGED <<users, disk, fetches, sweep, clock, cleaned, catalogVars>>

\* The caller has sent the local file of the returned download to the chat
\* and stores the remote file reference it got back on that row.
StoreRemoteReference(r) ==
    /\ req[r].pc = "done"
    /\ LET i == req[r].result IN
       /\ downloads[i].status = COMPLETED
       /\ downloads[i].telegram_file_id = Null
       /\ downloads[i].file_path # Null
       /\ downloads[i].file_path \in DOMAIN disk
       /\ downloads' = [downloads EXCEPT ![i].telegram_file_id = i]
    /\ UNCHANGED <<videos, users, disk, req, fetches, sweep, clock, trail, cleaned, catalogVars>>

\* ---------------------------------------------------------------- cleanup

\* cleanup_all_files: DownloadHistory.filter(status=COMPLETED,
\* file_path__not_isnull=True).  The rows are held as in-memory objects with
\* the file_path read here.
OldDownloads ==
    {[id |-> i, file_path |-> downloads[i].file_path] :
        i \in {j \in RecordIds : /\ downloads[j].status = COMPLETED
                                  /\ downloads[j].file_path # Null}}

\* The scheduler between two passes: asyncio.sleep(DISK_CLEANUP_INTERVAL) is
\* pending.
Asleep == [pc |-> "sleep", pending |-> {}, cleaned_count |-> 0, freed |-> 0,
           start_used |-> 0, existing |-> {}, failed |-> FALSE, start_clock |-> 0]

\* Outcomes of the query of cleanup_all_files: the rows, or the store raises.
QueryOutcomes == {"ok", "query_fails"}

\* cleanup_scheduler wakes up and calls cleanup_all_files, which reads the
\* rows to clean; with no rows the loop has nothing to do and the function
\* returns 0.  An exception of the query is not caught in cleanup_all_files:
\* it reaches the except branch of the scheduler.  Nothing looks at the disk
\* usage.  Noted for the properties about a pass: the usage and the time at
\* its start, the rows of the query whose files exist, the bytes freed and
\* whether an iteration has raised.
SweepQuery(outcome) ==
    /\ sweep.pc = "sleep"
    /\ sweep' = IF outcome = "query_fails" THEN [Asleep EXCEPT !.pc = "raised"]
                ELSE IF OldDownloads = {}
                THEN [Asleep EXCEPT !.pc = "returned", !.start_clock = clock]
                ELSE [pc |-> "sweeping", pending |-> OldDownloads, cleaned_count |-> 0,
                      freed |-> 0, start_used |-> DiskUsed(disk),
                      existing |-> {d \in OldDownloads : d.file_path \in DOMAIN disk},
                      failed |-> FALSE, start_clock |-> clock]
    /\ UNCHANGED <<downloads, videos, users, disk, req, fetches, clock, trail, cleaned, catalogVars>>

\* Outcomes of the body of the loop for a file that exists: it is removed
\* and the row saved, os.remove raises, or the save raises after the removal.
SweepOutcomes == {"ok", "remove_fails", "save_fails"}

\* AfterRow without the try of the loop: an iteration that raises ends
\* cleanup_all_files with the exception.
AfterRowRaising(d, count, bytes, raised) ==
    IF raised THEN [Asleep EXCEPT !.pc = "raised"]
    ELSE IF sweep.pending = {d}
    THEN [sweep EXCEPT !.pc = "returned", !.pending = {}, !.cleaned_count = @ + count,
                       !.freed = 0, !.start_used = 0]
    ELSE [sweep EXCEPT !.pending = @ \ {d}, !.cleaned_count = @ + count,
                       !.freed = @ + bytes]

\* The locals of cleanup_all_files after the iteration for row d, in which
\* `count` rows were counted and `bytes` bytes freed, and which raised or
\* not: the loop goes on, or d was the last row and cleanup_all_files
\* returns cleaned_count.
AfterRow(d, count, bytes, raised) ==
    IF sweep.pending = {d}
    THEN [sweep EXCEPT !.pc = "returned", !.pending = {}, !.cleaned_count = @ + count,
                       !.freed = 0, !.start_used = 0, !.failed = @ \/ raised]
    ELSE [sweep EXCEPT !.pending = @ \ {d}, !.cleaned_count = @ + count,
                       !.freed = @ + bytes, !.failed = @ \/ raised]

\* SweepStep with the save of file_path left out: the file is removed and
\* counted, the row keeps its file_path.
SweepStepNotSaved(d, outcome) ==
    /\ sweep.pc = "sweeping"
    /\ d \in sweep.pending
    /\ IF d.file_path \notin DOMAIN disk \/ outcome = "remove_fails"
       THEN /\ sweep' = AfterRow(d, 0, 0, d.file_path \in DOMAIN disk)
            /\ UNCHANGED <<disk, downloads, cleaned>>
       ELSE /\ disk' = RemoveFile(disk, d.file_path)
            /\ sweep' = AfterRow(d, 1, disk[d.file_path], outcome # "ok")
            /\ UNCHANGED <<downloads, cleaned>>
    /\ UNCHANGED <<videos, users, req, fetches, clock, trail, catalogVars>>

\* One iteration of the loop of cleanup_all_files, for the row d of the query
\* result (the query has no ordering): if the file exists, remove it (and
\* its directory, which holds nothing else), set file_path to None, save
\* that field and count the row.  An exception is logged and the loop goes
\* on.
SweepStep(d, outcome) ==
    /\ sweep.pc = "sweeping"
    /\ d \in sweep.pending
    /\ IF d.file_path \notin DOMAIN disk \/ outcome = "remove_fails"
       THEN /\ sweep' = AfterRow(d, 0, 0, d.file_path \in DOMAIN disk)
            /\ UNCHANGED <<disk, downloads, cleaned>>
       ELSE /\ disk' = RemoveFile(disk, d.file_path)
            /\ IF outcome = "ok"
               THEN /\ downloads' = [downloads EXCEPT ![d.id].file_path = Null]
                    /\ cleaned' = cleaned \cup {d.id}
                    /\ sweep' = AfterRow(d, 1, disk[d.file_path], FALSE)
               ELSE /\ sweep' = AfterRow(d, 0, disk[d.file_path], TRUE)
                    /\ UNCHANGED <<downloads, cleaned>>
    /\ UNCHANGED <<videos, users, req, fetches, clock, trail, catalogVars>>

\* The loop of cleanup_all_files goes on with any row left of the query.
SweepLoop == \E d \in sweep.pending, o \in SweepOutcomes : SweepStep(d, o)

\* cleanup_scheduler with an except branch that re-raises: the task ends
\* with the pass that raised.
SweepSleepReraising ==
    /\ sweep.pc = "returned"
    /\ sweep' = Asleep
    /\ UNCHANGED <<downloads, videos, users, disk, req, fetches, clock, trail, cleaned, catalogVars>>

\* cleanup_scheduler after a pass: cleanup_all_files has returned and the try
\* block sleeps, or the pass has raised and the except branch logs the
\* exception and sleeps.
SweepSleep ==
    /\ sweep.pc \in {"returned", "raised"}
    /\ sweep' = Asleep
    /\ UNCHANGED <<downloads, videos, users, disk, req, fetches, clock, trail, cleaned, catalogVars>>

\* ---------------------------------------------------------------- resolver

\* A URL and a video id are sequences of characters; None, for a video id,
\* is the empty sequence (a captured id has at least one character, and the
\* callers test `if not video_id`).
None == <<>>

Lower  == {"a", "b", "c", "d", "e", "f", "g", "h", "i", "j", "k", "l", "m",
           "n", "o", "p", "q", "r", "s", "t", "u", "v", "w", "x", "y", "z"}
Upper  == {"A", "B", "C", "D", "E", "F", "G", "H", "I", "J", "K", "L", "M",
           "N", "O", "P", "Q", "R", "S", "T", "U", "V", "W", "X", "Y", "Z"}
Digits == {"0", "1", "2", "3", "4", "5", "6", "7", "8", "9"}

\* The characters of the URLs: every character but the newline is one `.`
\* matches.
Chars == Lower \cup Upper \cup Digits \cup
         {":", "/", ".", "?", "=", "&", "@", "_", "-", " "}

\* The character classes of the patterns.
IdChars  == Lower \cup Upper \cup Digits \cup {"_", "-"}   \* [a-zA-Z0-9_-]
Alnum    == Lower \cup Upper \cup Digits                   \* [A-Za-z0-9]
Hex      == {"a", "b", "c", "d", "e", "f"} \cup Digits     \* [a-f0-9]
NotSlash == Chars \ {"/"}                                  \* [^/]

\* The elements of a pattern: a literal string, an optional non-capturing
\* group of alternative literals `(?:a|b)?`, a greedy `[class]+`, a lazy
\* `.*?`, and the two ends of the capturing group.
Lit(str)   == [kind |-> "lit", str |-> str]
Opt(alts)  == [kind |-> "opt", alts |-> alts]
Plus(cls)  == [kind |-> "plus", cls |-> cls]
Lazy(cls)  == [kind |-> "lazy", cls |-> cls]
Open       == [kind |-> "open"]
Close      == [kind |-> "close"]

\* (?:https?://)?
Scheme == <<Opt(<<<<"h", "t", "t", "p", "s", ":", "/", "/">>, <<"h", "t", "t", "p", ":", "/", "/">>>>)>>
\* (?:www\.)?
OptWww == <<Opt(<<<<"w", "w", "w", ".">>>>)>>
\* (-?\d+_\d+)
OwnerVideo == <<Open, Opt(<<<<"-">>>>), Plus(Digits), Lit(<<"_">>), Plus(Digits), Close>>

\* `patterns` of extract_video_id, in the order of the list.
patterns == <<
    \* (?:https?://)?(?:www\.)?youtube\.com/watch\?v=([a-zA-Z0-9_-]+)
    Scheme \o OptWww \o
        <<Lit(<<"y", "o", "u", "t", "u", "b", "e", ".", "c", "o", "m", "/", "w", "a", "t", "c", "h", "?", "v", "=">>)>> \o
        <<Open>> \o <<Plus(IdChars)>> \o <<Close>>,
    \* (?:https?://)?(?:www\.)?youtu\.be/([a-zA-Z0-9_-]+)
    Scheme \o OptWww \o <<Lit(<<"y", "o", "u", "t", "u", ".", "b", "e", "/">>)>> \o <<Open>> \o
        <<Plus(IdChars)>> \o <<Close>>,
    \* (?:https?://)?(?:www\.)?youtube\.com/embed/([a-zA-Z0-9_-]+)
    Scheme \o OptWww \o
        <<Lit(<<"y", "o", "u", "t", "u", "b", "e", ".", "c", "o", "m", "/", "e", "m", "b", "e", "d", "/">>)>> \o
        <<Open>> \o <<Plus(IdChars)>> \o <<Close>>,
    \* (?:https?://)?(?:www\.)?youtube\.com/v/([a-zA-Z0-9_-]+)
    Scheme \o OptWww \o
        <<Lit(<<"y", "o", "u", "t", "u", "b", "e", ".", "c", "o", "m", "/", "v", "/">>)>> \o
        <<Open>> \o <<Plus(IdChars)>> \o <<Close>>,
    \* (?:https?://)?(?:www\.)?youtube\.com/shorts/([a-zA-Z0-9_-]+)
    Scheme \o OptWww \o
        <<Lit(<<"y", "o", "u", "t", "u", "b", "e", ".", "c", "o", "m", "/", "s", "h", "o", "r", "t", "s", "/">>)>> \o
        <<Open>> \o <<Plus(IdChars)>> \o <<Close>>,
    \* (?:https?://)?(?:www\.|vm\.|vt\.)?tiktok\.com/@[^/]+/video/(\d+)
    Scheme \o <<Opt(<<<<"w", "w", "w", ".">>, <<"v", "m", ".">>, <<"v", "t", ".">>>>)>> \o
        <<Lit(<<"t", "i", "k", "t", "o", "k", ".", "c", "o", "m", "/", "@">>)>> \o
        <<Plus(NotSlash)>> \o <<Lit(<<"/", "v", "i", "d", "e", "o", "/">>)>> \o <<Open>> \o
        <<Plus(Digits)>> \o <<Close>>,
    \* (?:https?://)?(?:vm\.|vt\.)?tiktok\.com/([A-Za-z0-9]+)
    Scheme \o <<Opt(<<<<"v", "m", ".">>, <<"v", "t", ".">>>>)>> \o
        <<Lit(<<"t", "i", "k", "t", "o", "k", ".", "c", "o", "m", "/">>)>> \o <<Open>> \o
        <<Plus(Alnum)>> \o <<Close>>,
    \* (?:https?://)?(?:www\.)?tiktok\.com/t/([a-zA-Z0-9]+)/
    Scheme \o OptWww \o <<Lit(<<"t", "i", "k", "t", "o", "k", ".", "c", "o", "m", "/", "t", "/">>)>> \o
        <<Open>> \o <<Plus(Alnum)>> \o <<Close>> \o <<Lit(<<"/">>)>>,
    \* (?:https?://)?m\.tiktok\.com/v/(\d+)\.html
    Scheme \o <<Lit(<<"m", ".", "t", "i", "k", "t", "o", "k", ".", "c", "o", "m", "/", "v", "/">>)>> \o
        <<Open>> \o <<Plus(Digits)>> \o <<Close>> \o <<Lit(<<".", "h", "t", "m", "l">>)>>,
    \* (?:https?://)?(?:www\.)?rutube\.ru/video/([a-f0-9]+)/?
    Scheme \o OptWww \o
        <<Lit(<<"r", "u", "t", "u", "b", "e", ".", "r", "u", "/", "v", "i", "d", "e", "o", "/">>)>> \o
        <<Open>> \o <<Plus(Hex)>> \o <<Close>> \o <<Opt(<<<<"/">>>>)>>,
    \* (?:https?://)?(?:www\.)?rutube\.ru/shorts/([a-f0-9]+)/?
    Scheme \o OptWww \o
        <<Lit(<<"r", "u", "t", "u", "b", "e", ".", "r", "u", "/", "s", "h", "o", "r", "t", "s", "/">>)>> \o
        <<Open>> \o <<Plus(Hex)>> \o <<Close>> \o <<Opt(<<<<"/">>>>)>>,
    \* (?:https?://)?(?:www\.)?rutube\.ru/video/([a-f0-9]+)\?
    Scheme \o OptWww \o
        <<Lit(<<"r", "u", "t", "u", "b", "e", ".", "r", "u", "/", "v", "i", "d", "e", "o", "/">>)>> \o
        <<Open>> \o <<Plus(Hex)>> \o <<Close>> \o <<Lit(<<"?">>)>>,
    \* (?:https?://)?(?:www\.)?rutube\.ru/shorts/([a-f0-9]+)\?
    Scheme \o OptWww \o
        <<Lit(<<"r", "u", "t", "u", "b", "e", ".", "r", "u", "/", "s", "h", "o", "r", "t", "s", "/">>)>> \o
        <<Open>> \o <<Plus(Hex)>> \o <<Close>> \o <<Lit(<<"?">>)>>,
    \* (?:https?://)?(?:www\.)?vk\.com/video(-?\d+_\d+)
    Scheme \o OptWww \o <<Lit(<<"v", "k", ".", "c", "o", "m", "/", "v", "i", "d", "e", "o">>)>> \o
        OwnerVideo,
    \* (?:https?://)?(?:www\.)?vk\.com/vkvideo\?z=video(-?\d+_\d+)
    Scheme \o OptWww \o
        <<Lit(<<"v", "k", ".", "c", "o", "m", "/", "v", "k", "v", "i", "d", "e", "o", "?", "z", "=", "v", "i", "d", "e", "o">>)>> \o
        OwnerVideo,
    \* (?:https?://)?(?:www\.)?vk\.com/clip(-?\d+_\d+)
    Scheme \o OptWww \o <<Lit(<<"v", "k", ".", "c", "o", "m", "/", "c", "l", "i", "p">>)>> \o
        OwnerVideo,
    \* (?:https?://)?(?:www\.)?vk\.com/shvideo\?.*?z=clip(-?\d+_\d+)
    Scheme \o OptWww \o
        <<Lit(<<"v", "k", ".", "c", "o", "m", "/", "s", "h", "v", "i", "d", "e", "o", "?">>)>> \o
        <<Lazy(Chars)>> \o <<Lit(<<"z", "=", "c", "l", "i", "p">>)>> \o OwnerVideo,
    \* (?:https?://)?(?:www\.)?vk\.com/search/video\?.*?z=video(-?\d+_\d+)
    Scheme \o OptWww \o
        <<Lit(<<"v", "k", ".", "c", "o", "m", "/", "s", "e", "a", "r", "c", "h", "/", "v", "i", "d", "e", "o", "?">>)>> \o
        <<Lazy(Chars)>> \o <<Lit(<<"z", "=", "v", "i", "d", "e", "o">>)>> \o OwnerVideo,
    \* (?:https?://)?(?:www\.)?vkvideo\.ru/video(-?\d+_\d+)
    Scheme \o OptWww \o
        <<Lit(<<"v", "k", "v", "i", "d", "e", "o", ".", "r", "u", "/", "v", "i", "d", "e", "o">>)>> \o
        OwnerVideo,
    \* (?:https?://)?(?:www\.)?vkvideo\.ru/playlist/[^/]+/video(-?\d+_\d+)
    Scheme \o OptWww \o
        <<Lit(<<"v", "k", "v", "i", "d", "e", "o", ".", "r", "u", "/", "p", "l", "a", "y", "l", "i", "s", "t", "/">>)>> \o
        <<Plus(NotSlash)>> \o <<Lit(<<"/", "v", "i", "d", "e", "o">>)>> \o OwnerVideo
>>

\* The string s has the literal str at position i.
StartsWith(s, i, str) ==
    /\ i + Len(str) - 1 <= Len(s)
    /\ \A j \in 1..Len(str) : s[i + j - 1] = str[j]

\* The number of consecutive characters of s from position i that are in cls.
RECURSIVE Run(_, _, _)
Run(cls, s, i) ==
    IF i <= Len(s) /\ s[i] \in cls THEN 1 + Run(cls, s, i + 1) ELSE 0

NoMatch == [ok |-> FALSE, cs |-> 0, ce |-> 0]

\* The match of the elements k.. of pattern p at position i of s, as the
\* backtracking matcher of `re` finds it: the first alternative, the longest
\* repetition (the shortest for a lazy one) for which the rest of the pattern
\* matches.  cs and ce are the start of the captured group and the position
\* after its end.
RECURSIVE Match(_, _, _, _), TryAlts(_, _, _, _, _), TryLonger(_, _, _, _, _),
          TryShorter(_, _, _, _, _)
Match(p, k, s, i) ==
    IF k > Len(p) THEN [ok |-> TRUE, cs |-> 0, ce |-> 0]
    ELSE CASE p[k].kind = "lit" ->
                 IF StartsWith(s, i, p[k].str) THEN Match(p, k + 1, s, i + Len(p[k].str))
                 ELSE NoMatch
           [] p[k].kind = "opt" -> TryAlts(p, k, s, i, 1)
           [] p[k].kind = "plus" -> TryShorter(p, k, s, i, Run(p[k].cls, s, i))
           [] p[k].kind = "lazy" -> TryLonger(p, k, s, i, 0)
           [] p[k].kind = "open" ->
                 LET m == Match(p, k + 1, s, i) IN IF m.ok THEN [m EXCEPT !.cs = i] ELSE m
           [] p[k].kind = "close" ->
                 LET m == Match(p, k + 1, s, i) IN IF m.ok THEN [m EXCEPT !.ce = i] ELSE m

\* The optional group p[k]: its alternatives from the j-th on, then without it.
TryAlts(p, k, s, i, j) ==
    IF j > Len(p[k].alts) THEN Match(p, k + 1, s, i)
    ELSE LET m == IF StartsWith(s, i, p[k].alts[j])
                  THEN Match(p, k + 1, s, i + Len(p[k].alts[j]))
                  ELSE NoMatch
         IN  IF m.ok THEN m ELSE TryAlts(p, k, s, i, j + 1)

\* The greedy repetition p[k] with n characters, then with fewer, at least one.
TryShorter(p, k, s, i, n) ==
    IF n < 1 THEN NoMatch
    ELSE LET m == Match(p, k + 1, s, i + n)
         IN  IF m.ok THEN m ELSE TryShorter(p, k, s, i, n - 1)

\* The lazy repetition p[k] with n characters, then with more.
TryLonger(p, k, s, i, n) ==
    IF n > Run(p[k].cls, s, i) THEN NoMatch
    ELSE LET m == Match(p, k + 1, s, i + n)
         IN  IF m.ok THEN m ELSE TryLonger(p, k, s, i, n + 1)

\* re.search(pattern, url): the match at the leftmost position that has one.
RECURSIVE SearchFrom(_, _, _)
SearchFrom(p, s, i) ==
    IF i > Len(s) + 1 THEN NoMatch
    ELSE LET m == Match(p, 1, s, i)
         IN  IF m.ok THEN m ELSE SearchFrom(p, s, i + 1)

search(p, s) == SearchFrom(p, s, 1)

\* match.group(1)
group1(s, m) == SubSeq(s, m.cs, m.ce - 1)

\* The loop of extract_video_id from the k-th pattern on.
RECURSIVE ExtractFrom(_, _)
ExtractFrom(url, k) ==
    IF k > Len(patterns) THEN None
    ELSE LET m == search(patterns[k], url)
         IN  IF m.ok THEN group1(url, m) ELSE ExtractFrom(url, k + 1)

\* The loop of extract_video_id going on after a match: the last pattern that
\* matches gives the id.
RECURSIVE ExtractLastFrom(_, _, _)
ExtractLastFrom(url, k, found) ==
    IF k > Len(patterns) THEN found
    ELSE LET m == search(patterns[k], url)
         IN  ExtractLastFrom(url, k + 1, IF m.ok THEN group1(url, m) ELSE found)

extract_video_id_last(url) == ExtractLastFrom(url, 1, None)

extract_video_id(url) == ExtractFrom(url, 1)

is_valid_url(url) == extract_video_id(url) # None

\* URLs of every shape the patterns are written for, each with the video id
\* it carries.
Supported == {
    \* https://www.youtube.com/watch?v=aB1_-
    [url |-> <<"h", "t", "t", "p", "s", ":", "/", "/", "w", "w", "w", ".", "y", "o", "u", "t", "u", "b", "e", ".", "c", "o", "m", "/", "w", "a", "t", "c", "h", "?", "v", "=", "a", "B", "1", "_", "-">>,
     id |-> <<"a", "B", "1", "_", "-">>],
    \* https://www.youtube.com/watch?v=aB1_-&t=5
    [url |-> <<"h", "t", "t", "p", "s", ":", "/", "/", "w", "w", "w", ".", "y", "o", "u", "t", "u", "b", "e", ".", "c", "o", "m", "/", "w", "a", "t", "c", "h", "?", "v", "=", "a", "B", "1", "_", "-", "&", "t", "=", "5">>,
     id |-> <<"a", "B", "1", "_", "-">>],
    \* https://youtu.be/aB1_-
    [url |-> <<"h", "t", "t", "p", "s", ":", "/", "/", "y", "o", "u", "t", "u", ".", "b", "e", "/", "a", "B", "1", "_", "-">>,
     id |-> <<"a", "B", "1", "_", "-">>],
    \* youtu.be/aB1_-
    [url |-> <<"y", "o", "u", "t", "u", ".", "b", "e", "/", "a", "B", "1", "_", "-">>,
     id |-> <<"a", "B", "1", "_", "-">>],
    \* https://www.youtube.com/embed/aB1_-
    [url |-> <<"h", "t", "t", "p", "s", ":", "/", "/", "w", "w", "w", ".", "y", "o", "u", "t", "u", "b", "e", ".", "c", "o", "m", "/", "e", "m", "b", "e", "d", "/", "a", "B", "1", "_", "-">>,
     id |-> <<"a", "B", "1", "_", "-">>],
    \* http://youtube.com/v/aB1_-
    [url |-> <<"h", "t", "t", "p", ":", "/", "/", "y", "o", "u", "t", "u", "b", "e", ".", "c", "o", "m", "/", "v", "/", "a", "B", "1", "_", "-">>,
     id |-> <<"a", "B", "1", "_", "-">>],
    \* https://youtube.com/shorts/aB1_-
    [url |-> <<"h", "t", "t", "p", "s", ":", "/", "/", "y", "o", "u", "t", "u", "b", "e", ".", "c", "o", "m", "/", "s", "h", "o", "r", "t", "s", "/", "a", "B", "1", "_", "-">>,
     id |-> <<"a", "B", "1", "_", "-">>],
    \* https://www.tiktok.com/@user/video/123
    [url |-> <<"h", "t", "t", "p", "s", ":", "/", "/", "w", "w", "w", ".", "t", "i", "k", "t", "o", "k", ".", "c", "o", "m", "/", "@", "u", "s", "e", "r", "/", "v", "i", "d", "e", "o", "/", "1", "2", "3">>,
     id |-> <<"1", "2", "3">>],
    \* https://vm.tiktok.com/ZMab1/
    [url |-> <<"h", "t", "t", "p", "s", ":", "/", "/", "v", "m", ".", "t", "i", "k", "t", "o", "k", ".", "c", "o", "m", "/", "Z", "M", "a", "b", "1", "/">>,
     id |-> <<"Z", "M", "a", "b", "1">>],
    \* https://vt.tiktok.com/ZSab1/
    [url |-> <<"h", "t", "t", "p", "s", ":", "/", "/", "v", "t", ".", "t", "i", "k", "t", "o", "k", ".", "c", "o", "m", "/", "Z", "S", "a", "b", "1", "/">>,
     id |-> <<"Z", "S", "a", "b", "1">>],
    \* https://www.tiktok.com/t/ZTab1/
    [url |-> <<"h", "t", "t", "p", "s", ":", "/", "/", "w", "w", "w", ".", "t", "i", "k", "t", "o", "k", ".", "c", "o", "m", "/", "t", "/", "Z", "T", "a", "b", "1", "/">>,
     id |-> <<"Z", "T", "a", "b", "1">>],
    \* https://m.tiktok.com/v/123.html
    [url |-> <<"h", "t", "t", "p", "s", ":", "/", "/", "m", ".", "t", "i", "k", "t", "o", "k", ".", "c", "o", "m", "/", "v", "/", "1", "2", "3", ".", "h", "t", "m", "l">>,
     id |-> <<"1", "2", "3">>],
    \* https://rutube.ru/video/abc123/
    [url |-> <<"h", "t", "t", "p", "s", ":", "/", "/", "r", "u", "t", "u", "b", "e", ".", "r", "u", "/", "v", "i", "d", "e", "o", "/", "a", "b", "c", "1", "2", "3", "/">>,
     id |-> <<"a", "b", "c", "1", "2", "3">>],
    \* https://rutube.ru/video/abc123?r=wd
    [url |-> <<"h", "t", "t", "p", "s", ":", "/", "/", "r", "u", "t", "u", "b", "e", ".", "r", "u", "/", "v", "i", "d", "e", "o", "/", "a", "b", "c", "1", "2", "3", "?", "r", "=", "w", "d">>,
     id |-> <<"a", "b", "c", "1", "2", "3">>],
    \* https://rutube.ru/shorts/abc123/
    [url |-> <<"h", "t", "t", "p", "s", ":", "/", "/", "r", "u", "t", "u", "b", "e", ".", "r", "u", "/", "s", "h", "o", "r", "t", "s", "/", "a", "b", "c", "1", "2", "3", "/">>,
     id |-> <<"a", "b", "c", "1", "2", "3">>],
    \* rutube.ru/shorts/abc123?r=wd
    [url |-> <<"r", "u", "t", "u", "b", "e", ".", "r", "u", "/", "s", "h", "o", "r", "t", "s", "/", "a", "b", "c", "1", "2", "3", "?", "r", "=", "w", "d">>,
     id |-> <<"a", "b", "c", "1", "2", "3">>],
    \* https://vk.com/video-123_456
    [url |-> <<"h", "t", "t", "p", "s", ":", "/", "/", "v", "k", ".", "c", "o", "m", "/", "v", "i", "d", "e", "o", "-", "1", "2", "3", "_", "4", "5", "6">>,
     id |-> <<"-", "1", "2", "3", "_", "4", "5", "6">>],
    \* https://vk.com/vkvideo?z=video-123_456
    [url |-> <<"h", "t", "t", "p", "s", ":", "/", "/", "v", "k", ".", "c", "o", "m", "/", "v", "k", "v", "i", "d", "e", "o", "?", "z", "=", "v", "i", "d", "e", "o", "-", "1", "2", "3", "_", "4", "5", "6">>,
     id |-> <<"-", "1", "2", "3", "_", "4", "5", "6">>],
    \* https://vk.com/clip-123_456
    [url |-> <<"h", "t", "t", "p", "s", ":", "/", "/", "v", "k", ".", "c", "o", "m", "/", "c", "l", "i", "p", "-", "1", "2", "3", "_", "4", "5", "6">>,
     id |-> <<"-", "1", "2", "3", "_", "4", "5", "6">>],
    \* https://vk.com/shvideo?q=a&z=clip-123_456
    [url |-> <<"h", "t", "t", "p", "s", ":", "/", "/", "v", "k", ".", "c", "o", "m", "/", "s", "h", "v", "i", "d", "e", "o", "?", "q", "=", "a", "&", "z", "=", "c", "l", "i", "p", "-", "1", "2", "3", "_", "4", "5", "6">>,
     id |-> <<"-", "1", "2", "3", "_", "4", "5", "6">>],
    \* https://vk.com/search/video?q=a&z=video123_456
    [url |-> <<"h", "t", "t", "p", "s", ":", "/", "/", "v", "k", ".", "c", "o", "m", "/", "s", "e", "a", "r", "c", "h", "/", "v", "i", "d", "e", "o", "?", "q", "=", "a", "&", "z", "=", "v", "i", "d", "e", "o", "1", "2", "3", "_", "4", "5", "6">>,
     id |-> <<"1", "2", "3", "_", "4", "5", "6">>],
    \* https://vkvideo.ru/video-123_456
    [url |-> <<"h", "t", "t", "p", "s", ":", "/", "/", "v", "k", "v", "i", "d", "e", "o", ".", "r", "u", "/", "v", "i", "d", "e", "o", "-", "1", "2", "3", "_", "4", "5", "6">>,
     id |-> <<"-", "1", "2", "3", "_", "4", "5", "6">>],
    \* https://vkvideo.ru/playlist/-1_2/video-123_456
    [url |-> <<"h", "t", "t", "p", "s", ":", "/", "/", "v", "k", "v", "i", "d", "e", "o", ".", "r", "u", "/", "p", "l", "a", "y", "l", "i", "s", "t", "/", "-", "1", "_", "2", "/", "v", "i", "d", "e", "o", "-", "1", "2", "3", "_", "4", "5", "6">>,
     id |-> <<"-", "1", "2", "3", "_", "4", "5", "6">>]
}

\* Strings that are no URL of a video on any of the platforms.
Garbage == {
    \* hello world
    <<"h", "e", "l", "l", "o", " ", "w", "o", "r", "l", "d">>,
    \* https://example.com/watch?v=aB1
    <<"h", "t", "t", "p", "s", ":", "/", "/", "e", "x", "a", "m", "p", "l", "e", ".", "c", "o", "m", "/", "w", "a", "t", "c", "h", "?", "v", "=", "a", "B", "1">>,
    \* https://www.youtube.com/
    <<"h", "t", "t", "p", "s", ":", "/", "/", "w", "w", "w", ".", "y", "o", "u", "t", "u", "b", "e", ".", "c", "o", "m", "/">>,
    \* https://vimeo.com/123
    <<"h", "t", "t", "p", "s", ":", "/", "/", "v", "i", "m", "e", "o", ".", "c", "o", "m", "/", "1", "2", "3">>,
    \* https://rutube.ru/video/
    <<"h", "t", "t", "p", "s", ":", "/", "/", "r", "u", "t", "u", "b", "e", ".", "r", "u", "/", "v", "i", "d", "e", "o", "/">>,
    \* https://vk.com/video
    <<"h", "t", "t", "p", "s", ":", "/", "/", "v", "k", ".", "c", "o", "m", "/", "v", "i", "d", "e", "o">>
}

Urls == {x.url : x \in Supported} \cup Garbage

\* A caller receives the text of a message.
Receive(url) ==
    /\ resolver.pc = "idle"
    /\ resolver' = [resolver EXCEPT !.pc = "received", !.url = url]
    /\ UNCHANGED <<downloads, videos, users, disk, req, fetches, sweep, clock, trail,
                   cleaned, catalog, calls, readerVars, botVars>>

\* The caller calls extract_video_id(url).
ExtractVideoId ==
    /\ resolver.pc = "received"
    /\ "extract_video_id" \notin resolver.applied
    /\ resolver' = [resolver EXCEPT !.video_id = extract_video_id(resolver.url),
                                    !.applied = @ \cup {"extract_video_id"}]
    /\ UNCHANGED <<downloads, videos, users, disk, req, fetches, sweep, clock, trail,
                   cleaned, catalog, calls, readerVars, botVars>>

\* The caller calls is_valid_url(url).
IsValidUrl ==
    /\ resolver.pc = "received"
    /\ "is_valid_url" \notin resolver.applied
    /\ resolver' = [resolver EXCEPT !.valid = is_valid_url(resolver.url),
                                    !.applied = @ \cup {"is_valid_url"}]
    /\ UNCHANGED <<downloads, videos, users, disk, req, fetches, sweep, clock, trail,
                   cleaned, catalog, calls, readerVars, botVars>>

\* ----------------------------------------------------------------- catalog

Calls == 1..MaxCalls

\* The URLs get_or_create_video is called with: two URLs of one video, the
\* URL of another video and a string that is no URL.
CatalogUrls == {
    <<"h", "t", "t", "p", "s", ":", "/", "/", "y", "o", "u", "t", "u", ".", "b", "e", "/", "a", "B", "1", "_", "-">>,
    <<"y", "o", "u", "t", "u", ".", "b", "e", "/", "a", "B", "1", "_", "-">>,
    <<"h", "t", "t", "p", "s", ":", "/", "/", "v", "k", ".", "c", "o", "m", "/", "c", "l", "i", "p", "-", "1", "2", "3", "_", "4", "5", "6">>,
    <<"h", "e", "l", "l", "o", " ", "w", "o", "r", "l", "d">>}

\* info.get("upload_date") of a metadata without an upload date: None.  A
\* date is a sequence, of characters as fetched and of year, month and day
\* as stored; the stored None is the empty sequence, as is the empty string.
NoDate == <<>>

\* What ydl.extract_info does for a URL: it raises, it returns no data, or
\* it returns the metadata, of which the duration (0 when the metadata has
\* none) and the upload date matter here.
InfosWith(dates) ==
    {[kind |-> "raises", duration |-> 0, upload_date |-> NoDate],
     [kind |-> "none", duration |-> 0, upload_date |-> NoDate]} \cup
    {[kind |-> "info", duration |-> d, upload_date |-> u] :
        d \in {0, max_video_duration, max_video_duration + 1}, u \in dates}

\* The metadata without an upload date.
Infos == InfosWith({NoDate})

\* The upload dates of the fetched metadata: none, the 29th of February of a
\* leap year and of another year, a 13th month, a date with dashes, a date
\* followed by one more digit, and a date of six digits.
UploadDates == {
    NoDate,
    <<"2", "0", "2", "4", "0", "2", "2", "9">>,
    <<"2", "0", "2", "3", "0", "2", "2", "9">>,
    <<"2", "0", "2", "4", "1", "3", "0", "1">>,
    <<"2", "0", "2", "4", "-", "0", "2", "-", "2", "9">>,
    <<"2", "0", "2", "4", "0", "2", "2", "9", "1">>,
    <<"2", "0", "2", "4", "1", "2">>}

\* The metadata with these upload dates.
DatedInfos == InfosWith(UploadDates)

\* The value of a digit.
DigitValue(ch) ==
    CHOOSE n \in 0..9 : <<"0", "1", "2", "3", "4", "5", "6", "7", "8", "9">>[n + 1] = ch

\* s has n digits from place i on.
IsDigits(s, i, n) == i + n - 1 <= Len(s) /\ \A k \in i..(i + n - 1) : s[k] \in Digits

\* The number written by the n digits of s from place i on.
RECURSIVE Number(_, _, _)
Number(s, i, n) ==
    IF n = 0 THEN 0 ELSE Number(s, i, n - 1) * 10 + DigitValue(s[i + n - 1])

\* One way of matching a directive at place i: the value and the place after
\* it, when the test holds.
Alt(test, s, i, n) ==
    IF test THEN <<[value |-> Number(s, i, n), next |-> i + n]>> ELSE <<>>

\* %m of strptime at place i: 1[0-2] | 0[1-9] | [1-9], in this order
MonthAlts(s, i) ==
    Alt(IsDigits(s, i, 2) /\ s[i] = "1" /\ s[i + 1] \in {"0", "1", "2"}, s, i, 2) \o
    Alt(IsDigits(s, i, 2) /\ s[i] = "0" /\ s[i + 1] # "0", s, i, 2) \o
    Alt(IsDigits(s, i, 1) /\ s[i] # "0", s, i, 1)

\* %d of strptime at place i: 3[01] | [12]\d | 0[1-9] | [1-9], in this order
DayAlts(s, i) ==
    Alt(IsDigits(s, i, 2) /\ s[i] = "3" /\ s[i + 1] \in {"0", "1"}, s, i, 2) \o
    Alt(IsDigits(s, i, 2) /\ s[i] \in {"1", "2"}, s, i, 2) \o
    Alt(IsDigits(s, i, 2) /\ s[i] = "0" /\ s[i + 1] # "0", s, i, 2) \o
    Alt(IsDigits(s, i, 1) /\ s[i] # "0", s, i, 1)

\* The matches of %m%d from place i on, in the order in which the regular
\* expression of strptime tries them: the first month that has a day after
\* it, with its first day.
RECURSIVE MonthDayFrom(_, _, _)
MonthDayFrom(s, months, k) ==
    IF k > Len(months) THEN <<>>
    ELSE LET days == DayAlts(s, months[k].next) IN
         IF days # <<>>
         THEN <<[month |-> months[k].value, day |-> days[1].value,
                 next |-> days[1].next]>>
         ELSE MonthDayFrom(s, months, k + 1)

\* The days of a month of a year.
DaysIn(year, month) ==
    IF month = 2
    THEN (IF year % 4 = 0 /\ (year % 100 # 0 \/ year % 400 = 0) THEN 29 ELSE 28)
    ELSE IF month \in {4, 6, 9, 11} THEN 30 ELSE 31

\* The result of strptime that raises ValueError.
ValueError == [ok |-> FALSE, date |-> NoDate]

\* datetime.strptime(s, "%Y%m%d").date(): the string has to begin with four
\* digits, a month and a day, nothing may come after them, and the year,
\* month and day have to be a date; otherwise ValueError is raised.
strptime(s) ==
    IF ~IsDigits(s, 1, 4) THEN ValueError
    ELSE LET found == MonthDayFrom(s, MonthAlts(s, 5), 1) IN
         IF found = <<>> THEN ValueError
         ELSE IF found[1].next # Len(s) + 1 THEN ValueError
         ELSE IF Number(s, 1, 4) = 0 THEN ValueError
         ELSE IF found[1].day > DaysIn(Number(s, 1, 4), found[1].month) THEN ValueError
         ELSE [ok |-> TRUE, date |-> <<Number(s, 1, 4), found[1].month, found[1].day>>]

\* The parsing of the upload date with `except ValueError` left out: an
\* unparsable date raises out of the block.
parsed_upload_date_uncaught(info) ==
    [raised |-> info.upload_date # NoDate /\ ~strptime(info.upload_date).ok,
     upload_date |-> IF info.upload_date # NoDate /\ strptime(info.upload_date).ok
                     THEN strptime(info.upload_date).date ELSE NoDate]

\* upload_date of get_or_create_video: None when the metadata has no upload
\* date or strptime raises ValueError, otherwise the parsed date (the date
\* of the midnight of that day in the Moscow zone, which is that day).
\* Nothing is raised.
parsed_upload_date(info) ==
    [raised |-> FALSE,
     upload_date |-> IF info.upload_date # NoDate /\ strptime(info.upload_date).ok
                     THEN strptime(info.upload_date).date ELSE NoDate]

\* get_video_info: the metadata, or None when extract_info raised (the
\* exception is logged) or returned nothing.
get_video_info(info) ==
    IF info.kind = "info" THEN info
    ELSE [kind |-> "none", duration |-> 0, upload_date |-> NoDate]

\* `if duration and duration > settings.max_video_duration` with the
\* comparison against the ceiling left out.
TooLongNever(duration) == FALSE

\* `if duration and duration > settings.max_video_duration`
TooLong(duration) == duration # 0 /\ duration > max_video_duration

\* Video.get(video_id=video_id) that never finds a row.
VideosWithIdMissed(video_id) == {}

\* The rows of the Video table with this video_id.
VideosWithId(video_id) == {i \in 1..Len(catalog) : catalog[i].video_id = video_id}

\* video_id is a unique column: Video.create raises IntegrityError when a
\* row with the video_id exists.
UniqueViolation(video_id) == VideosWithId(video_id) # {}

\* An except branch that lets the exception go on to the caller.
ExceptReraise(call, what) ==
    [call EXCEPT !.pc = "done", !.result = Null, !.caught = what, !.raised = TRUE]

\* The outer except branch of get_or_create_video: the exception is logged
\* and None returned.
ExceptReturnNone(call, what) ==
    [call EXCEPT !.pc = "done", !.result = Null, !.caught = what]

\* Outcomes of Video.get: the store answers (with the row, or DoesNotExist),
\* or it raises another exception.
GetOutcomes == {"ok", "store error"}

\* get_or_create_video(url) up to the answer of Video.get: None for a URL
\* without video id; the row when there is one; otherwise get_video_info is
\* called, which hands ydl.extract_info to the executor.  The calls that have
\* returned before this one starts are noted.
GetOrCreateVideo(c, url, outcome) ==
    /\ calls[c].pc = "idle"
    /\ c > 1 => calls[c - 1].pc # "idle"
    /\ LET video_id == extract_video_id(url)
           call == [calls[c] EXCEPT !.url = url, !.video_id = video_id,
                        !.started_after = {b \in Calls : calls[b].pc = "done"}]
       IN  calls' = [calls EXCEPT ![c] =
              IF video_id = None THEN [call EXCEPT !.pc = "done", !.result = Null]
              ELSE IF outcome = "store error" THEN ExceptReturnNone(call, "Video.get")
              ELSE IF VideosWithId(video_id) # {}
              THEN [call EXCEPT !.pc = "done", !.hit = TRUE,
                                !.result = CHOOSE i \in VideosWithId(video_id) : TRUE]
              ELSE [call EXCEPT !.pc = "fetching", !.fetched = TRUE]]
    /\ UNCHANGED <<downloads, videos, users, disk, req, fetches, sweep, clock, trail,
                   cleaned, resolver, catalog, readerVars, botVars>>

\* Outcomes of Video.create apart from the unique constraint.
CreateOutcomes == {"ok", "store error"}

\* get_or_create_video from the return of the executor on: None when there is
\* no metadata or the video is too long, otherwise the upload date is parsed
\* and Video.create called with the video_id, the URL and the metadata.  An
\* exception of the parsing or of the store is caught by the outer except
\* branch.
InfoFetched(c, fetched_info, outcome) ==
    /\ calls[c].pc = "fetching"
    /\ LET info == get_video_info(fetched_info)
           call == [calls[c] EXCEPT !.info = fetched_info]
       IN
       IF info.kind = "none" \/ TooLong(info.duration)
       THEN /\ calls' = [calls EXCEPT ![c] = [call EXCEPT !.pc = "done", !.result = Null]]
            /\ UNCHANGED catalog
       ELSE IF parsed_upload_date(info).raised
       THEN /\ calls' = [calls EXCEPT ![c] = ExceptReturnNone(call, "ValueError")]
            /\ UNCHANGED catalog
       ELSE IF outcome = "store error"
       THEN /\ calls' = [calls EXCEPT ![c] = ExceptReturnNone(call, "Video.create")]
            /\ UNCHANGED catalog
       ELSE IF UniqueViolation(call.video_id)
       THEN /\ calls' = [calls EXCEPT ![c] = ExceptReturnNone(call, "IntegrityError")]
            /\ UNCHANGED catalog
       ELSE /\ catalog' = Append(catalog, [video_id |-> call.video_id, url |-> call.url,
                                           duration |-> info.duration,
                                           upload_date |->
                                               parsed_upload_date(info).upload_date])
            /\ calls' = [calls EXCEPT ![c] =
                            [call EXCEPT !.pc = "done", !.created = TRUE,
                                         !.result = Len(catalog) + 1]]
    /\ UNCHANGED <<downloads, videos, users, disk, req, fetches, sweep, clock, trail,
                   cleaned, resolver, readerVars, botVars>>

\* -------------------------------------------------------------- statistics

\* DownloadHistory.filter(status=status).count()
CountStatus(status) == Cardinality({i \in RecordIds : downloads[i].status = status})

RECURSIVE GCD(_, _)
GCD(a, b) == IF b = 0 THEN a ELSE GCD(b, a % b)

\* The quotient n / d of two counts, d > 0: a fraction <<numerator,
\* denominator>> in lowest terms.  The float of the source is this number up
\* to its rounding.
Quotient(n, d) == <<n \div GCD(n, d), d \div GCD(n, d)>>

\* The number 0 as a fraction.
Zero == <<0, 1>>

\* (completed_downloads / total_downloads * 100) if total_downloads > 0 else 0
success_rate(completed, total) ==
    IF total > 0 THEN Quotient(completed * 100, total) ELSE Zero

\* Video.all().order_by("-download_count").limit(10): the videos by
\* download_count, highest first; the order of videos with equal counts is
\* not specified.
PopularVideos ==
    {p \in [1..Cardinality(Videos) -> Videos] :
        /\ \A i, j \in DOMAIN p : i # j => p[i] # p[j]
        /\ \A i, j \in DOMAIN p :
              i < j => videos[p[i]].download_count >= videos[p[j]].download_count}

\* get_download_stats, first query: DownloadHistory.all().count()
StatsTotal ==
    /\ stats.pc = "idle"
    /\ stats' = [stats EXCEPT !.pc = "total", !.total_downloads = Len(downloads)]
    /\ UNCHANGED <<downloadVars, resolver, catalog, calls, report, formats, botVars>>

\* get_download_stats, second query: the count of the COMPLETED rows
StatsCompleted ==
    /\ stats.pc = "total"
    /\ stats' = [stats EXCEPT !.pc = "completed",
                              !.completed_downloads = CountStatus(COMPLETED)]
    /\ UNCHANGED <<downloadVars, resolver, catalog, calls, report, formats, botVars>>

\* get_download_stats, third query: the count of the FAILED rows
StatsFailed ==
    /\ stats.pc = "completed"
    /\ stats' = [stats EXCEPT !.pc = "failed", !.failed_downloads = CountStatus(FAILED)]
    /\ UNCHANGED <<downloadVars, resolver, catalog, calls, report, formats, botVars>>

\* get_download_stats, the count of the rows created today (every row of a
\* behaviour is created on the day of the call) and the popular videos, read
\* in one step, and the returned dictionary.
StatsReturn ==
    /\ stats.pc = "failed"
    /\ \E p \in PopularVideos :
          stats' = [stats EXCEPT
                      !.pc = "returned",
                      !.today_downloads = Len(downloads),
                      !.success_rate = success_rate(stats.completed_downloads,
                                                    stats.total_downloads),
                      !.popular_videos =
                          [i \in DOMAIN p |->
                              [title |-> p[i],
                               download_count |-> videos[p[i]].download_count]]]
    /\ UNCHANGED <<downloadVars, resolver, catalog, calls, report, formats, botVars>>

\* ------------------------------------------------------- windowed report

\* Largest number of DownloadHistory rows in the store when the report is
\* made.
MaxRows == 3

\* The key of the bucket of the rows without a user (a word for
\* "anonymous" in the source).
Anonymous == "anonymous"

\* The rows of the store as the report sees them: the user, the status and
\* whether created_at is within the last 30 days.
ReportRow ==
    [user : Users \cup {NoUser}, status : {DOWNLOADING, COMPLETED, FAILED},
     recent : BOOLEAN]

\* A download is recorded in the store the report will read.
StoreRow(row) ==
    /\ report.pc = "idle"
    /\ Len(report.rows) < MaxRows
    /\ report' = [report EXCEPT !.rows = Append(@, row)]
    /\ UNCHANGED <<downloadVars, resolver, catalog, calls, stats, formats, botVars>>

\* DownloadHistory.filter(created_at__gte=thirty_days_ago_start)
Window(rows) == SelectSeq(rows, LAMBDA d : d.recent)

\* user_id = download.user.id if download.user else the anonymous key
user_id(download) == IF download.user # NoUser THEN download.user ELSE Anonymous

\* The dictionary user_downloads, in the order of insertion of its keys, after
\* the body of the loop for one download: a new entry for a new user_id,
\* then total += 1 and completed += 1 or failed += 1 by the status.
Counted(user_downloads, download) ==
    LET known == \E i \in DOMAIN user_downloads :
                    user_downloads[i].user_id = user_id(download)
        with  == IF known THEN user_downloads
                 ELSE Append(user_downloads,
                             [user_id |-> user_id(download), total |-> 0,
                              completed |-> 0, failed |-> 0])
    IN [i \in DOMAIN with |->
          IF with[i].user_id # user_id(download) THEN with[i]
          ELSE [with[i] EXCEPT
                  !.total = @ + 1,
                  !.completed = IF download.status = COMPLETED THEN @ + 1 ELSE @,
                  !.failed = IF download.status = FAILED THEN @ + 1 ELSE @]]

\* The loop over user_stats, from download k on.
RECURSIVE Grouped(_, _, _)
Grouped(user_stats, k, user_downloads) ==
    IF k > Len(user_stats) THEN user_downloads
    ELSE Grouped(user_stats, k + 1, Counted(user_downloads, user_stats[k]))

\* Entry e put into the sorted sequence `sorted`, after the entries with a
\* total not below its own, so that equal totals keep their order.
Inserted(sorted, e) ==
    LET before == Cardinality({i \in DOMAIN sorted : sorted[i].total >= e.total})
    IN SubSeq(sorted, 1, before) \o <<e>> \o SubSeq(sorted, before + 1, Len(sorted))

\* The same for a sort by rising total.
InsertedAscending(sorted, e) ==
    LET before == Cardinality({i \in DOMAIN sorted : sorted[i].total <= e.total})
    IN SubSeq(sorted, 1, before) \o <<e>> \o SubSeq(sorted, before + 1, Len(sorted))

RECURSIVE SortedFrom(_, _, _)
SortedFrom(items, k, sorted) ==
    IF k > Len(items) THEN sorted
    ELSE SortedFrom(items, k + 1, Inserted(sorted, items[k]))

RECURSIVE SortedAscendingFrom(_, _, _)
SortedAscendingFrom(items, k, sorted) ==
    IF k > Len(items) THEN sorted
    ELSE SortedAscendingFrom(items, k + 1, InsertedAscending(sorted, items[k]))

\* sorted(...) without reverse=True: by rising total.
sorted_ascending(user_downloads) == SortedAscendingFrom(user_downloads, 1, <<>>)

\* sorted(user_downloads.items(), key=lambda x: x[1]["total"], reverse=True):
\* by falling total, entries of equal total in the order of the dictionary.
sorted_users(user_downloads) == SortedFrom(user_downloads, 1, <<>>)

\* sum(stats[field] for stats in user_downloads.values())
RECURSIVE SumOf(_, _, _)
SumOf(user_downloads, field, k) ==
    IF k > Len(user_downloads) THEN 0
    ELSE user_downloads[k][field] + SumOf(user_downloads, field, k + 1)

\* generate_stats_file on the rows of the store: the query of the rows of
\* the window, the grouping by user, the listing by falling total and the
\* totals of the last section of the text; it returns the text, user_downloads
\* and total_downloads.
GenerateStatsFile ==
    /\ report.pc = "idle"
    /\ LET user_stats == Window(report.rows)
           user_downloads == Grouped(user_stats, 1, <<>>)
       IN report' = [pc |-> "returned", rows |-> report.rows, user_stats |-> user_stats,
                     user_downloads |-> user_downloads,
                     sorted_users |-> sorted_users(user_downloads),
                     total_downloads |-> SumOf(user_downloads, "total", 1),
                     total_completed |-> SumOf(user_downloads, "completed", 1),
                     total_failed |-> SumOf(user_downloads, "failed", 1)]
    /\ UNCHANGED <<downloadVars, resolver, catalog, calls, stats, formats, botVars>>

\* ------------------------------------------------------ available formats

\* Number of entries of info["formats"].
MaxFormats == 2

\* fmt.get("vcodec") of a format without a vcodec key: None.
NoCodec == "None"

\* The fields of a format that _extract_formats reads: vcodec ("none" for
\* an audio-only format), filesize in bytes, and tbr, the bitrate, given
\* here in bit/s (the source has it in kbit/s and multiplies it by 1000).
FormatFields ==
    [vcodec : {"none", "avc1", NoCodec}, filesize : {Missing, NoValue, 0, 7},
     tbr : {Missing, 12}]

\* The lists info["formats"]: format_id is the place in the list.
FormatLists ==
    {[i \in 1..n |-> [format_id |-> i, vcodec |-> f[i].vcodec,
                       filesize |-> f[i].filesize, tbr |-> f[i].tbr]] :
        n \in 0..MaxFormats, f \in [1..MaxFormats -> FormatFields]}

\* The dictionaries info: with or without the key "formats", and with a
\* duration in seconds or without one.
FormatInfos ==
    {info \in [has_formats : BOOLEAN, formats : FormatLists, duration : {Missing, 3}] :
        ~info.has_formats => info.formats = <<>>}

\* Python truth of a numeric field: a missing key, None and 0 are false.
Truthy(x) == x \notin {Missing, NoValue, 0}

\* fmt.get("filesize", 0)
GetFilesize(fmt) == IF fmt.filesize = Missing THEN 0 ELSE fmt.filesize

\* int((fmt["tbr"] * 1000 * info["duration"]) / 8): int() drops the fraction
Estimated(fmt, info) == (fmt.tbr * info.duration) \div 8

\* file_size of a format: filesize, or the estimate when filesize is not
\* given and tbr and duration are
FileSizeOf(fmt, info) ==
    IF ~Truthy(GetFilesize(fmt)) /\ Truthy(fmt.tbr) /\ Truthy(info.duration)
    THEN Estimated(fmt, info)
    ELSE GetFilesize(fmt)

\* `if fmt.get("vcodec") != "none"`
IsVideoFormat(fmt) == fmt.vcodec # "none"

\* _extract_formats(info): the loop over info["formats"], from entry k on
RECURSIVE ExtractedFrom(_, _, _)
ExtractedFrom(info, k, out) ==
    IF k > Len(info.formats) THEN out
    ELSE ExtractedFrom(info, k + 1,
            IF IsVideoFormat(info.formats[k])
            THEN Append(out, [format_id |-> info.formats[k].format_id,
                              filesize |-> FileSizeOf(info.formats[k], info),
                              vcodec |-> info.formats[k].vcodec])
            ELSE out)

\* _extract_formats(info)
extract_formats(info) ==
    IF info.has_formats THEN ExtractedFrom(info, 1, <<>>) ELSE <<>>

\* get_or_create_video calls _extract_formats on the fetched info for the
\* available_formats of the new Video.
ExtractFormats(info) ==
    /\ formats.pc = "idle"
    /\ formats' = [pc |-> "returned", info |-> info, result |-> extract_formats(info)]
    /\ UNCHANGED <<downloadVars, resolver, catalog, calls, stats, report, botVars>>

\* The handler is called for a new request.
Request(r) ==
    \E u \in UsersOf(r), t \in Tuples : Lookup(r, u, t[1], t[2], t[3], RequestedSize(t))

\* -------------------------------------------------------- subscription gate

\* What the subscription gate leaves alone.
GateFrame == UNCHANGED <<downloadVars, resolver, catalog, calls, readerVars, broadcast>>

\* int(args[1]) of /set_subscription: a channel id, or 0, which Python takes
\* as false just as it takes None.
ChannelIds == {Null, 1}

\* int(args[4]) of /set_subscription: any integer the admin types.
RequiredSubscribers == 0..MaxEvents

\* set_subscription_command with five arguments of which the second and the
\* fifth are integers: a new configuration replaces the old one.
SetSubscription(channel_id, required_subscribers) ==
    /\ commands < MaxCommands
    /\ subscription_config' =
           [active |-> TRUE, channel_id |-> channel_id,
            required_subscribers |-> required_subscribers, current_count |-> 0]
    /\ commands' = commands + 1
    /\ counted' = [u \in Users |-> 0]
    /\ UNCHANGED <<processed_users, events>>
    /\ GateFrame

\* set_subscription_command with fewer than five arguments, or with an
\* argument that int() rejects: the admin gets an answer, nothing is set.
SetSubscriptionRejected ==
    /\ commands < MaxCommands
    /\ commands' = commands + 1
    /\ UNCHANGED <<subscription_config, processed_users, events, counted>>
    /\ GateFrame

\* disable_subscription_command
DisableSubscription ==
    /\ commands < MaxCommands
    /\ subscription_config' =
           IF ~subscription_config.active
           THEN subscription_config
           ELSE [subscription_config EXCEPT !.active = FALSE]
    /\ commands' = commands + 1
    /\ UNCHANGED <<processed_users, events, counted>>
    /\ GateFrame

\* increment_subscription_counter(user_id, bot): the configuration and
\* processed_users it leaves, whether it raised current_count, and what it
\* returns. It has no await, so it runs in one piece.
increment_subscription_counter(uid) ==
    LET config == subscription_config
        raised == [config EXCEPT !.current_count = @ + 1]
        nothing == [config |-> config, processed_users |-> processed_users,
                    raised |-> FALSE, result |-> FALSE]
    IN  IF ~config.active THEN nothing
        ELSE IF uid \in processed_users THEN nothing
        ELSE IF raised.current_count >= raised.required_subscribers
        THEN [config |-> [raised EXCEPT !.active = FALSE], processed_users |-> {},
              raised |-> TRUE, result |-> TRUE]
        ELSE [config |-> raised, processed_users |-> processed_users \cup {uid},
              raised |-> TRUE, result |-> FALSE]

\* The events: a callback query whose data is "check_subscription", another
\* callback query, a message whose text starts with /check_subscription and
\* another message.
EventKinds == {"check_callback", "callback", "check_message", "message"}

\* SubscriptionMiddleware.__call__ from its entry to its first await: the
\* handler is called at once when the gate is inactive or has no channel,
\* when the data carry no user, for an admin, when the data carry no bot and
\* for a user in processed_users.
Arrive(e, kind, user, is_admin, bot) ==
    /\ events[e].pc = "idle"
    /\ \A d \in Events : d < e => events[d].pc # "idle"
    /\ user = NoUser => ~is_admin
    /\ LET open == ~subscription_config.active
                       \/ subscription_config.channel_id = Null
           known == user \in processed_users
           through == open \/ user = NoUser \/ is_admin \/ ~bot \/ known
       IN  events' = [events EXCEPT ![e] =
               [pc |-> IF through THEN "done" ELSE "check", kind |-> kind,
                user |-> user, is_admin |-> is_admin, bot |-> bot,
                open |-> open, known |-> known, member |-> FALSE,
                invoked |-> through]]
    /\ UNCHANGED <<subscription_config, processed_users, counted, commands>>
    /\ GateFrame

\* The first check_user_subscription returns, and every member is let
\* through.
MembershipCheckedAdmitsMembers(e, member) ==
    /\ events[e].pc = "check"
    /\ events' = [events EXCEPT ![e] =
           [@ EXCEPT !.member = member, !.pc = "done", !.invoked = member]]
    /\ UNCHANGED <<subscription_config, processed_users, counted, commands>>
    /\ GateFrame

\* The first check_user_subscription returns (member is FALSE too when
\* get_chat_member raised): a member who is in processed_users by now is
\* let through, a check_subscription callback goes on to the second check, a
\* /check_subscription message is let through, and any other event is
\* answered with the request to subscribe.
MembershipChecked(e, member) ==
    /\ events[e].pc = "check"
    /\ LET known == member /\ events[e].user \in processed_users
           kind == events[e].kind
       IN  events' = [events EXCEPT ![e] =
               [@ EXCEPT !.member = member, !.known = known,
                         !.pc = IF known THEN "done"
                                ELSE IF kind = "check_callback" THEN "recheck"
                                ELSE "done",
                         !.invoked = known \/ kind = "check_message"]]
    /\ UNCHANGED <<subscription_config, processed_users, counted, commands>>
    /\ GateFrame

\* The second check_user_subscription of a check_subscription callback
\* returns: a member is counted and, unless answering the callback raises,
\* the handler is called; anyone else is told to subscribe.
Recheck(e, member, answered) ==
    /\ events[e].pc = "recheck"
    /\ LET uid == events[e].user
           counter == increment_subscription_counter(uid)
       IN  IF member
           THEN /\ subscription_config' = counter.config
                /\ processed_users' = counter.processed_users
                /\ counted' = IF counter.raised
                              THEN [counted EXCEPT ![uid] = @ + 1]
                              ELSE counted
                /\ events' = [events EXCEPT ![e] =
                       [@ EXCEPT !.member = TRUE,
                                 !.pc = IF answered THEN "done" ELSE "raised",
                                 !.invoked = answered]]
           ELSE /\ events' = [events EXCEPT ![e] =
                       [@ EXCEPT !.member = FALSE, !.pc = "done"]]
                /\ UNCHANGED <<subscription_config, processed_users, counted>>
    /\ UNCHANGED commands
    /\ GateFrame

\* ---------------------------------------------------------------- broadcast

\* What the broadcast leaves alone.
BroadcastFrame == UNCHANGED <<downloadVars, resolver, catalog, calls, readerVars, gateVars>>

\* The posts an admin sends while the broadcast waits for one: a text that is
\* one of the words of cancellation, another text, a photo, video, document,
\* audio, voice or animation ("media"), a sticker or video note, and a
\* location, contact or poll, each of the last three with or without a text
\* or caption.
Posts ==
    {[kind |-> "cancel", text |-> TRUE], [kind |-> "text", text |-> TRUE]}
        \cup [kind : {"media", "sticker", "location"}, text : BOOLEAN]

\* What user_service.get_all_users returns: for each user, in order, whether
\* the user is blocked.
UserLists == UNION {[1..n -> BOOLEAN] : n \in 0..MaxTargets}

\* copy_message_to_user: the calls of the bot API it makes for a post, in
\* order. Each of them may raise, which ends the copy.
copy_message_to_user(source_message) ==
    IF source_message.kind = "media" THEN <<"send_media">>
    ELSE IF source_message.kind = "sticker"
    THEN (IF source_message.text THEN <<"send_message">> ELSE <<>>) \o <<"send_sticker">>
    ELSE IF source_message.kind = "location"
    THEN <<"send_location">> \o (IF source_message.text THEN <<"send_message">> ELSE <<>>)
    ELSE <<"send_message">>

\* The numbers of calls of one copy that may return before one raises.
Completions == UNION {0..Len(copy_message_to_user(post)) : post \in Posts}

\* process_broadcast_post is called with the admin's post. A word of
\* cancellation is answered and clears the FSM state, unless the answer
\* raises; any other post goes on to the query for the users.
ProcessBroadcastPost(message, answered) ==
    /\ broadcast.pc = "idle"
    /\ broadcast' =
           IF message.kind = "cancel"
           THEN IF answered
                THEN [broadcast EXCEPT !.pc = "cancelled", !.message = message,
                                       !.state = "None"]
                ELSE [broadcast EXCEPT !.pc = "raised", !.message = message]
           ELSE [broadcast EXCEPT !.pc = "get_all_users", !.message = message]
    /\ BroadcastFrame

\* get_all_users raises: the handler ends with the FSM state as it was.
GetAllUsersRaises ==
    /\ broadcast.pc = "get_all_users"
    /\ broadcast' = [broadcast EXCEPT !.pc = "raised"]
    /\ BroadcastFrame

\* get_all_users returns: with no user the admin is told so and the FSM
\* state is cleared; otherwise the start of the broadcast is announced and
\* the counts start at zero. Either answer may raise.
GetAllUsersReturns(all_users, answered) ==
    /\ broadcast.pc = "get_all_users"
    /\ broadcast' =
           IF ~answered THEN [broadcast EXCEPT !.pc = "raised", !.users = all_users]
           ELSE IF all_users = <<>>
           THEN [broadcast EXCEPT !.pc = "nobody", !.users = all_users, !.state = "None"]
           ELSE [broadcast EXCEPT !.pc = "loop", !.users = all_users, !.next = 1,
                                  !.sent_count = 0, !.failed_count = 0,
                                  !.blocked_count = 0]
    /\ BroadcastFrame

\* One round of the loop for a blocked user.
SkipBlocked ==
    /\ broadcast.pc = "loop"
    /\ broadcast.next <= Len(broadcast.users)
    /\ broadcast.users[broadcast.next]
    /\ broadcast' = [broadcast EXCEPT !.blocked_count = @ + 1, !.next = @ + 1]
    /\ BroadcastFrame

\* One round of the loop for a user who is not blocked, in which the loop
\* ends when the copy raises.
CopyToUserStopsAtFailure(completed) ==
    /\ broadcast.pc = "loop"
    /\ broadcast.next <= Len(broadcast.users)
    /\ ~broadcast.users[broadcast.next]
    /\ LET sends == copy_message_to_user(broadcast.message)
           tried == IF completed < Len(sends) THEN completed + 1 ELSE completed
       IN  /\ completed \in 0..Len(sends)
           /\ broadcast' =
                  [broadcast EXCEPT
                       !.attempts = Append(@, [user |-> broadcast.next, calls |-> tried,
                                               sent |-> completed = Len(sends)]),
                       !.sent_count = IF completed = Len(sends) THEN @ + 1 ELSE @,
                       !.failed_count = IF completed = Len(sends) THEN @ ELSE @ + 1,
                       !.next = IF completed = Len(sends)
                                THEN @ + 1 ELSE Len(broadcast.users) + 1]
    /\ BroadcastFrame

\* One round of the loop for a user who is not blocked: copy_message_to_user
\* makes its calls, of which the first completed ones return and the next,
\* if there is one, raises; the user counts as sent when all returned and as
\* failed otherwise, and the loop goes on.
CopyToUser(completed) ==
    /\ broadcast.pc = "loop"
    /\ broadcast.next <= Len(broadcast.users)
    /\ ~broadcast.users[broadcast.next]
    /\ LET sends == copy_message_to_user(broadcast.message)
           tried == IF completed < Len(sends) THEN completed + 1 ELSE completed
       IN  /\ completed \in 0..Len(sends)
           /\ broadcast' =
                  [broadcast EXCEPT
                       !.attempts = Append(@, [user |-> broadcast.next, calls |-> tried,
                                               sent |-> completed = Len(sends)]),
                       !.sent_count = IF completed = Len(sends) THEN @ + 1 ELSE @,
                       !.failed_count = IF completed = Len(sends) THEN @ ELSE @ + 1,
                       !.next = @ + 1]
    /\ BroadcastFrame

\* After the loop: the result is written into the status message and the
\* FSM state is cleared; when the edit raises the handler ends before it
\* clears the state.
FinishBroadcast(edited) ==
    /\ broadcast.pc = "loop"
    /\ broadcast.next > Len(broadcast.users)
    /\ broadcast' = IF edited
                    THEN [broadcast EXCEPT !.pc = "done", !.state = "None"]
                    ELSE [broadcast EXCEPT !.pc = "raised"]
    /\ BroadcastFrame

\* ------------------------------------------------------------ specification

Next ==
    \/ \E r \in Requests : Request(r)
    \/ \E r \in Requests : DownloadVideoReuse(r)
    \/ \E r \in Requests, o \in StatsOutcomes : ReuseStats(r, o)
    \/ \E r \in Requests : StartNewDownload(r)
    \/ \E r \in Requests, m \in FetchErrors : FetchFails(r, m)
    \/ \E r \in Requests : FetchCompletes(r)
    \/ \E r \in Requests, o \in StatsOutcomes : FreshStats(r, o)
    \/ \E r \in Requests, ok \in BOOLEAN : VideoSave(r, ok)
    \/ \E r \in Requests : StoreRemoteReference(r)
    \/ \E o \in QueryOutcomes : SweepQuery(o)
    \/ SweepLoop
    \/ SweepSleep

Spec == Init /\ [][Next]_vars

\* The download requests alone, without the cleanup task.
NextDownloads ==
    \/ \E r \in Requests : Request(r)
    \/ \E r \in Requests : DownloadVideoReuse(r)
    \/ \E r \in Requests, o \in StatsOutcomes : ReuseStats(r, o)
    \/ \E r \in Requests : StartNewDownload(r)
    \/ \E r \in Requests, m \in FetchErrors : FetchFails(r, m)
    \/ \E r \in Requests : FetchCompletes(r)
    \/ \E r \in Requests, o \in StatsOutcomes : FreshStats(r, o)
    \/ \E r \in Requests, ok \in BOOLEAN : VideoSave(r, ok)
    \/ \E r \in Requests : StoreRemoteReference(r)

SpecDownloads == Init /\ [][NextDownloads]_vars

\* The resolver alone: extract_video_id and is_valid_url applied to a URL.
NextResolver ==
    \/ \E url \in Urls : Receive(url)
    \/ ExtractVideoId
    \/ IsValidUrl

SpecResolver == Init /\ [][NextResolver]_vars

\* The video catalog alone: concurrent calls of get_or_create_video.
NextCatalog ==
    \/ \E c \in Calls, url \in CatalogUrls, o \in GetOutcomes : GetOrCreateVideo(c, url, o)
    \/ \E c \in Calls, i \in Infos, o \in CreateOutcomes : InfoFetched(c, i, o)

SpecCatalog == Init /\ [][NextCatalog]_vars

\* The first URL of the catalog, whose metadata comes with any of the upload
\* dates.
DatedUrls == {url \in CatalogUrls : Len(url) = 22}

\* The video catalog with the upload dates of the metadata: calls of
\* get_or_create_video for one URL.
NextDates ==
    \/ \E c \in Calls, url \in DatedUrls, o \in GetOutcomes : GetOrCreateVideo(c, url, o)
    \/ \E c \in Calls, i \in DatedInfos, o \in CreateOutcomes : InfoFetched(c, i, o)

SpecDates == Init /\ [][NextDates]_vars

\* A call of get_download_stats alongside the download requests.
NextStats ==
    \/ \E r \in Requests : Request(r)
    \/ \E r \in Requests : DownloadVideoReuse(r)
    \/ \E r \in Requests, o \in StatsOutcomes : ReuseStats(r, o)
    \/ \E r \in Requests : StartNewDownload(r)
    \/ \E r \in Requests, m \in FetchErrors : FetchFails(r, m)
    \/ \E r \in Requests : FetchCompletes(r)
    \/ \E r \in Requests, o \in StatsOutcomes : FreshStats(r, o)
    \/ \E r \in Requests, ok \in BOOLEAN : VideoSave(r, ok)
    \/ \E r \in Requests : StoreRemoteReference(r)
    \/ StatsTotal
    \/ StatsCompleted
    \/ StatsFailed
    \/ StatsReturn

SpecStats == Init /\ [][NextStats]_vars

\* The windowed report alone: generate_stats_file applied to a store.
NextReport ==
    \/ \E row \in ReportRow : StoreRow(row)
    \/ GenerateStatsFile

SpecReport == Init /\ [][NextReport]_vars

\* The format list alone: _extract_formats applied to a fetched info.
NextFormats == \E info \in FormatInfos : ExtractFormats(info)

SpecFormats == Init /\ [][NextFormats]_vars

\* The subscription gate alone: the admin's commands and the events that
\* pass the middleware.
NextGate ==
    \/ \E c \in ChannelIds, n \in RequiredSubscribers : SetSubscription(c, n)
    \/ SetSubscriptionRejected
    \/ DisableSubscription
    \/ \E e \in Events, kind \in EventKinds, user \in Users \cup {NoUser},
          is_admin \in BOOLEAN, bot \in BOOLEAN : Arrive(e, kind, user, is_admin, bot)
    \/ \E e \in Events, member \in BOOLEAN : MembershipChecked(e, member)
    \/ \E e \in Events, member \in BOOLEAN, answered \in BOOLEAN :
          Recheck(e, member, answered)

SpecGate == Init /\ [][NextGate]_vars

\* A check_subscription callback of a user who is no admin.
Confirmation(e) ==
    \E user \in Users : Arrive(e, "check_callback", user, FALSE, TRUE)

\* One event of any kind passing the middleware, after the admin's commands
\* and alongside the confirmations of the other events.
NextMiddleware ==
    \/ \E c \in ChannelIds, n \in RequiredSubscribers : SetSubscription(c, n)
    \/ SetSubscriptionRejected
    \/ DisableSubscription
    \/ \E e \in Events \ {MaxEvents} : Confirmation(e)
    \/ \E kind \in EventKinds, user \in Users \cup {NoUser}, is_admin \in BOOLEAN,
          bot \in BOOLEAN : Arrive(MaxEvents, kind, user, is_admin, bot)
    \/ \E e \in Events, member \in BOOLEAN : MembershipChecked(e, member)
    \/ \E e \in Events, member \in BOOLEAN, answered \in BOOLEAN :
          Recheck(e, member, answered)

SpecMiddleware == Init /\ [][NextMiddleware]_vars

\* The broadcast alone: one call of process_broadcast_post.
NextBroadcast ==
    \/ \E message \in Posts, answered \in BOOLEAN : ProcessBroadcastPost(message, answered)
    \/ GetAllUsersRaises
    \/ \E all_users \in UserLists, answered \in BOOLEAN :
          GetAllUsersReturns(all_users, answered)
    \/ SkipBlocked
    \/ \E completed \in Completions : CopyToUser(completed)
    \/ \E edited \in BOOLEAN : FinishBroadcast(edited)

SpecBroadcast == Init /\ [][NextBroadcast]_vars

\* The handler is called for a new request while no other request is being
\* handled.
RequestInTurn(r) ==
    /\ \A q \in Requests : req[q].pc \in {"idle", "done", "raised"}
    /\ Request(r)

\* The cleanup task running alongside download requests that are handled
\* one at a time.
NextCleanup ==
    \/ \E r \in Requests : RequestInTurn(r)
    \/ \E r \in Requests : DownloadVideoReuse(r)
    \/ \E r \in Requests, o \in StatsOutcomes : ReuseStats(r, o)
    \/ \E r \in Requests : StartNewDownload(r)
    \/ \E r \in Requests, m \in FetchErrors : FetchFails(r, m)
    \/ \E r \in Requests : FetchCompletes(r)
    \/ \E r \in Requests, o \in StatsOutcomes : FreshStats(r, o)
    \/ \E r \in Requests, ok \in BOOLEAN : VideoSave(r, ok)
    \/ \E r \in Requests : StoreRemoteReference(r)
    \/ \E o \in QueryOutcomes : SweepQuery(o)
    \/ SweepLoop
    \/ SweepSleep

SpecCleanup == Init /\ [][NextCleanup]_vars

\* The same with the scheduling of the cleanup task: it is an asyncio task of
\* its own, so the event loop resumes it whenever its sleep has elapsed or
\* the await it waits on has finished.
SpecScheduler ==
    /\ Init /\ [][NextCleanup]_vars
    /\ WF_vars(\E o \in QueryOutcomes : SweepQuery(o))
    /\ WF_vars(SweepLoop)
    /\ WF_vars(SweepSleep)

\* ------------------------------------------------------------------ claims

Terminal == {COMPLETED, FAILED}

\* C1: across any interleaving of download requests, the external media
\* fetch is invoked at most once per (video, quality, format_type).
C1_AtMostOneFetchPerTuple == \A t \in Tuples : fetches[t] <= 1

\* C2: a request made when a download of its tuple is COMPLETED does not
\* invoke the external fetch again, and when it has returned the video's
\* download_count and the user's total_downloads have been increased for it.
C2_LaterRequestsReuse ==
    \A r \in Requests :
        req[r].after_completed =>
            /\ ~req[r].fetched
            /\ req[r].pc = "done" => req[r].counted

\* C3: the status of a download only moves forward: never back to PENDING
\* or DOWNLOADING, and a COMPLETED or FAILED status never changes again.
C3_StatusOnlyForward ==
    [][\A i \in RecordIds :
          /\ downloads[i].status \in Terminal => downloads'[i].status = downloads[i].status
          /\ downloads[i].status = DOWNLOADING => downloads'[i].status # PENDING]_vars

\* The statuses t are PENDING, then DOWNLOADING, then a terminal status, as
\* far as they go.
ThroughDownloading(t) ==
    /\ t[1] = PENDING
    /\ Len(t) >= 2 => t[2] = DOWNLOADING
    /\ Len(t) >= 3 => t[3] \in Terminal

C5_CompletedHasPointer ==
    \A i \in RecordIds :
        (downloads[i].status = COMPLETED /\ i \notin cleaned) =>
            HasDurablePointer(downloads[i])

\* C6: cleanup does not set file_path to None on a COMPLETED download whose
\* remote file reference is not set.
C6_CleanupKeepsAPointer ==
    [][\A i \in RecordIds :
          (/\ downloads[i].status = COMPLETED
           /\ downloads[i].file_path # Null
           /\ downloads'[i].file_path = Null) => downloads[i].telegram_file_id # Null]_vars

\* C7: a download that has failed is FAILED with an error_message and with
\* neither file_path nor remote file reference, at whatever step it failed.
C7_FailedHasErrorAndNoPointer ==
    \A i \in RecordIds :
        downloads[i].status = FAILED =>
            /\ downloads[i].error_message # NoError
            /\ downloads[i].file_path = Null
            /\ downloads[i].telegram_file_id = Null

\* C8: the download operation never raises to its caller.
C8_NeverRaises == \A r \in Requests : req[r].pc # "raised"

\* C9: in a pass of the scheduler that starts with the disk usage below the
\* threshold, no file is removed and no file_path is set to None.
C9_NoSweepBelowThreshold ==
    [][(sweep.pc = "sweeping" /\ UsagePercent(sweep.start_used) < UsageThreshold) =>
          /\ DOMAIN disk \subseteq DOMAIN disk'
          /\ \A i \in RecordIds :
                downloads[i].file_path # Null => downloads'[i].file_path # Null]_vars

\* C10: in a pass that starts with the usage at or above the threshold, each
\* file removed is that of the oldest-completed download still to clean, and
\* none is removed once the bytes freed have reached used - total * target.
C10_OldestFirstUntilTarget ==
    [][(sweep.pc = "sweeping" /\ UsagePercent(sweep.start_used) >= UsageThreshold) =>
          \A d \in sweep.pending :
              (d.file_path \in DOMAIN disk /\ d.file_path \notin DOMAIN disk') =>
                  /\ sweep.freed < BytesToFree(sweep.start_used)
                  /\ \A e \in sweep.pending :
                        e.file_path \in DOMAIN disk =>
                            downloads[d.id].completed_at <= downloads[e.id].completed_at]_vars

\* The rows with a file that a call of cleanup_all_files made now removes.
WouldClean == {d \in OldDownloads : d.file_path \in DOMAIN disk}

\* cleanup_all_files has returned N for the N rows of its query whose files
\* existed, all these files are removed and all these rows have file_path
\* None; and a call made before another download completes has no file to
\* remove: it returns 0 and changes nothing.
CleanedAllOfThem ==
    /\ sweep.cleaned_count = Cardinality(sweep.existing)
    /\ \A d \in sweep.existing :
          d.file_path \notin DOMAIN disk /\ downloads[d.id].file_path = Null
    /\ clock = sweep.start_clock => WouldClean = {}

C12_PassesRecurForever ==
    /\ []<>(sweep.pc = "sleep")
    /\ []<>(sweep.pc \in {"sweeping", "returned", "raised"})

\* C12 witness: a pass has raised while a download had a file to clean.
C12_Witness == sweep.pc = "raised" /\ WouldClean # {}

\* The patterns that match the URL.
Matching(url) == {k \in 1..Len(patterns) : search(patterns[k], url).ok}

\* The id captured by the first pattern of the list that matches the URL,
\* None when no pattern matches.
FirstMatch(url) ==
    IF Matching(url) = {} THEN None
    ELSE LET k == CHOOSE j \in Matching(url) : \A l \in Matching(url) : j <= l
         IN  group1(url, search(patterns[k], url))

\* C17: extract_video_id returns the id captured by the first pattern, in the
\* order of the list, that matches the URL, and None when none matches;
\* is_valid_url(url) is true exactly when extract_video_id(url) is not None.
C17_FirstPatternWins ==
    /\ "extract_video_id" \in resolver.applied =>
          resolver.video_id = FirstMatch(resolver.url)
    /\ resolver.applied = {"extract_video_id", "is_valid_url"} =>
          (resolver.valid <=> resolver.video_id # None)

\* C17 witness: both functions were applied to a URL that two patterns match
\* with different captures, and the id is the capture of the earlier one.
C17_Witness ==
    /\ resolver.applied = {"extract_video_id", "is_valid_url"}
    /\ resolver.valid
    /\ \E j, k \in Matching(resolver.url) :
          /\ j < k
          /\ \A l \in Matching(resolver.url) : j <= l
          /\ group1(resolver.url, search(patterns[k], resolver.url)) # resolver.video_id
          /\ group1(resolver.url, search(patterns[j], resolver.url)) = resolver.video_id

\* C18: for every supported shape of URL extract_video_id returns the video
\* id that URL carries, and for every other string it returns None.
C18_ResolvesEveryShape ==
    "extract_video_id" \in resolver.applied =>
        /\ \A x \in Supported : resolver.url = x.url => resolver.video_id = x.id
        /\ resolver.url \in Garbage => resolver.video_id = None

\* Call a had returned when call b started, and their URLs have the same
\* video id; both have returned.
Sequential(a, b) ==
    /\ a \in calls[b].started_after
    /\ calls[b].pc = "done"
    /\ calls[a].video_id # None
    /\ calls[a].video_id = calls[b].video_id

\* C13 as stated: two calls of get_or_create_video, one after the other,
\* with URLs of the same video id return the same Video row both times and
\* call the metadata fetch at most once between them; a call that finds the
\* row does not fetch.
C13_SameRecordOneFetch ==
    /\ \A a, b \in Calls :
          Sequential(a, b) =>
              /\ calls[a].result # Null /\ calls[b].result = calls[a].result
              /\ ~(calls[a].fetched /\ calls[b].fetched)
    /\ \A c \in Calls : calls[c].hit => ~calls[c].fetched

\* C13 as amended: when the first of the two calls has returned a Video row,
\* the second does not fetch and returns the same row, or None when its
\* lookup in the store raised; a call that finds the row does not fetch.
C13_SameRecordNoFetchAfterSuccess ==
    /\ \A a, b \in Calls :
          (Sequential(a, b) /\ calls[a].result # Null) =>
              /\ ~calls[b].fetched
              /\ \/ calls[b].result = calls[a].result
                 \/ calls[b].result = Null /\ calls[b].caught = "Video.get"
    /\ \A c \in Calls : calls[c].hit => ~calls[c].fetched

\* C13 witness: the first call fetched and created the row; the second, with
\* another URL of the same video, found it.
C13_Witness ==
    \E a, b \in Calls :
        /\ Sequential(a, b)
        /\ calls[a].url # calls[b].url
        /\ calls[a].created /\ calls[a].fetched
        /\ calls[b].hit /\ calls[b].result = calls[a].result

\* C14: the Video table has at most one row for a video_id, and every call
\* that came to create the row (the store being in order), concurrent calls
\* that both missed the lookup included, returns the row of its video_id.
C14_OneRecordReturnedToAll ==
    /\ \A i, j \in 1..Len(catalog) : catalog[i].video_id = catalog[j].video_id => i = j
    /\ \A c \in Calls :
          (/\ calls[c].pc = "done"
           /\ calls[c].fetched
           /\ calls[c].info.kind = "info" /\ ~TooLong(calls[c].info.duration)
           /\ calls[c].caught # "Video.create"
           /\ VideosWithId(calls[c].video_id) # {}) =>
              calls[c].result \in VideosWithId(calls[c].video_id)

\* C15: no Video row has a duration over settings.max_video_duration: a call
\* whose fetch returned such a duration returns None and has created no row.
C15_NoRecordOverDurationCeiling ==
    /\ \A i \in 1..Len(catalog) : catalog[i].duration <= max_video_duration
    /\ \A c \in Calls :
          (calls[c].pc = "done" /\ calls[c].info.duration > max_video_duration) =>
              calls[c].result = Null /\ ~calls[c].created

\* C15 witness: a call has fetched a duration over the ceiling and returned
\* None, while a call with a duration at the ceiling has created a row.
C15_Witness ==
    \E a, b \in Calls :
        /\ calls[a].pc = "done" /\ calls[a].fetched
        /\ calls[a].info.kind = "info"
        /\ calls[a].info.duration = max_video_duration + 1
        /\ calls[a].result = Null
        /\ calls[b].created /\ calls[b].info.duration = max_video_duration

\* C16: get_or_create_video never raises to its caller; for a URL without
\* video id, a metadata fetch that raised or one that returned no data, it
\* returns None and creates no row.
C16_NeverRaisesReturnsNone ==
    \A c \in Calls :
        /\ ~calls[c].raised
        /\ (/\ calls[c].pc = "done"
            /\ \/ calls[c].video_id = None
               \/ calls[c].fetched /\ calls[c].info.kind \in {"raises", "none"}) =>
              calls[c].result = Null /\ ~calls[c].created

\* C16 witness: one call has returned None after its fetch raised, and
\* another after an exception of the store was caught.
C16_Witness ==
    \E a, b \in Calls :
        /\ calls[a].pc = "done" /\ calls[a].info.kind = "raises" /\ calls[a].result = Null
        /\ calls[b].pc = "done" /\ calls[b].caught # "" /\ calls[b].result = Null

C20_CountedOnlyTerminalNeverFailed ==
    \A r \in Requests :
        /\ req[r].counted =>
              \E k \in 1..Len(trail[req[r].download]) :
                  trail[req[r].download][k] \in Terminal
        /\ (req[r].pc = "done" /\ req[r].download # Null
              /\ downloads[req[r].download].status = FAILED) => ~req[r].counted

\* ------------------------------------------------- statistics of the reuse

\* C21: on the reuse path download_video changes the video's download_count
\* and the user's total_downloads and total_download_size as a fresh
\* successful download of the same media does: each count rises by one and
\* the bytes rise by the size of the file the extraction library writes for
\* the media.
C21_ReuseCountsAsFresh ==
    [][\A r \in Requests :
          (req[r].pc = "reuse_stats" /\ req'[r].pc = "done") =>
             LET u == req[r].user
                 v == req[r].video
             IN /\ videos'[v].download_count = videos[v].download_count + 1
                /\ users'[u].total_downloads = users[u].total_downloads + 1
                /\ users'[u].total_download_size =
                      users[u].total_download_size + MediaSize(Tuple(req[r]))]_vars

\* ---------------------------------------------- one record for every call

\* The requests whose call of download_video has created its row.
Called == {r \in Requests : req[r].pc \notin {"idle", "looked"}}

\* C22: every call of download_video creates exactly one new row, owned by
\* the requesting user, on the reuse path as on the fresh path; on the reuse
\* path the new row carries status, file_size and telegram_file_id of the
\* existing download handed to the call, and the download returned to the
\* caller is the existing one, not the new row.
C22_OneNewRecordPerCall ==
    /\ Len(downloads) = Cardinality(Called)
    /\ \A r \in Called :
          /\ req[r].download \in RecordIds
          /\ downloads[req[r].download].user = req[r].user
          /\ Tuple(downloads[req[r].download]) = Tuple(req[r])
          /\ \A q \in Called \ {r} : req[q].download # req[r].download
          /\ TakesReusePath(r) =>
                /\ downloads[req[r].download].status = req[r].existing_status
                /\ downloads[req[r].download].file_size = req[r].existing_size
                /\ downloads[req[r].download].telegram_file_id = req[r].existing_tg
                /\ req[r].existing < req[r].download
                /\ req[r].pc = "done" => req[r].result = req[r].existing

\* A reuse call has returned the existing download, which has a remote
\* reference that the new row carries, and another call has fetched.
C22_Witness ==
    \E r, q \in Requests :
        /\ req[r].pc = "done" /\ TakesReusePath(r)
        /\ req[r].result = req[r].existing
        /\ req[r].existing_tg # Null
        /\ downloads[req[r].download].telegram_file_id = req[r].existing_tg
        /\ req[q].fetched /\ req[q].download = req[r].existing

\* ------------------------------------------------------ the reserved status

\* The statuses an operation writes.
Written == {PENDING, DOWNLOADING, COMPLETED, FAILED}

\* C23: no operation puts a DownloadHistory row into status CANCELLED: in
\* every reachable state the status of every row, and every status the row
\* has held, is one of PENDING, DOWNLOADING, COMPLETED, FAILED.
C23_NeverCancelled ==
    \A i \in RecordIds :
        /\ downloads[i].status \in Written
        /\ \A k \in 1..Len(trail[i]) : trail[i][k] \in Written

\* A fetched row has been marked failed after it was completed, and a reuse
\* row has taken the status of an existing download: every write of a status
\* has happened.
C23_Witness ==
    \E i, j \in RecordIds :
        /\ trail[i] = <<PENDING, DOWNLOADING, COMPLETED, FAILED>>
        /\ downloads[i].status = FAILED
        /\ trail[j] = <<PENDING, COMPLETED>>

\* ------------------------------------------------------ frame of the cleanup

\* A step of the cleanup task: only its actions change its locals.
CleanupStep == sweep' # sweep

\* C24: a cleanup pass only touches DownloadHistory rows that are COMPLETED
\* with a non-null file_path and changes only their file_path: it changes no
\* row's status, telegram_file_id or file_size, and it creates and deletes
\* no DownloadHistory, Video or User row.
C24_CleanupFrame ==
    [][CleanupStep =>
          /\ Len(downloads') = Len(downloads)
          /\ videos' = videos
          /\ users' = users
          /\ \A i \in RecordIds :
                downloads'[i] # downloads[i] =>
                   /\ downloads[i].status = COMPLETED
                   /\ downloads[i].file_path # Null
                   /\ downloads'[i] = [downloads[i] EXCEPT !.file_path = Null]]_vars

\* ------------------------------------------- a failure inside the cleanup

\* The rows of the query of the running pass that the pass has cleaned: all
\* had a file_path when the query read them, and only the pass sets it to
\* None.
CleanedInPass == {d \in sweep.existing : downloads[d.id].file_path = Null}

\* C25: when removing the file or saving the row of one download fails
\* during a pass of cleanup_all_files, the pass still goes through every
\* remaining row of its query and returns the number of rows it did clean;
\* the failure is not raised out of cleanup_all_files.
C25_SweepGoesOnAfterFailure ==
    /\ [][sweep.pc = "sweeping" =>
             /\ sweep'.pc \in {"sweeping", "returned"}
             /\ sweep' # sweep =>
                   \E d \in sweep.pending :
                      /\ sweep'.pending = sweep.pending \ {d}
                      /\ sweep'.cleaned_count = sweep.cleaned_count +
                            (IF downloads'[d.id].file_path # downloads[d.id].file_path
                             THEN 1 ELSE 0)]_vars
    /\ [](sweep.pc = "sweeping" => sweep.pending # {})
    /\ [](sweep.pc = "returned" =>
             /\ sweep.pending = {}
             /\ sweep.cleaned_count = Cardinality(CleanedInPass))

\* A pass over two rows with files has returned 1: one iteration failed and
\* the other row was cleaned.
C25_Witness ==
    /\ sweep.pc = "returned" /\ sweep.failed
    /\ Cardinality(sweep.existing) = 2
    /\ sweep.cleaned_count = 1
    /\ Cardinality(CleanedInPass) = 1

\* --------------------------------------------- cached fields of the video

\* C26: file_size, quality and format_id of a Video row are set by the first
\* successful download of the video and are not overwritten by a later
\* successful download, in any order or interleaving of the downloads of the
\* video.
C26_VideoCacheSetOnce ==
    [][\A v \in Videos :
          videos[v].file_size # Null =>
             /\ videos'[v].file_size = videos[v].file_size
             /\ videos'[v].quality = videos[v].quality
             /\ videos'[v].format_id = videos[v].format_id]_vars

\* ------------------------------------------- the directory of an attempt

\* The requests whose attempt has made its temporary directory.
Attempts == {r \in Requests : req[r].temp_dir # Null}

\* C27: two fresh download attempts, concurrent or not, never have the same
\* temporary directory, so the file_path of a COMPLETED row is the file its
\* own attempt produced (it lies in the directory of that attempt and,
\* while it exists, has the size the attempt recorded), and no two rows
\* created by fresh fetches have the same file_path.
C27_OwnTemporaryDirectory ==
    /\ \A r, q \in Attempts : r # q => req[r].temp_dir # req[q].temp_dir
    /\ \A r \in Attempts :
          LET row == downloads[req[r].download] IN
          /\ row.file_path \in {Null, req[r].temp_dir}
          /\ (row.status = COMPLETED /\ row.file_path \in DOMAIN disk) =>
                disk[row.file_path] = row.file_size
    /\ \A i, j \in RecordIds :
          (i # j /\ downloads[i].file_path # Null) =>
             downloads[i].file_path # downloads[j].file_path

\* Two attempts for different media of one video were fetching at the same
\* time and both have completed, their files being on the disk.
C27_Witness ==
    \E r, q \in Attempts :
        /\ r # q
        /\ req[r].video = req[q].video /\ req[r].format_type # req[q].format_type
        /\ req[r].existing = Null /\ req[q].existing = Null
        /\ req[q].after_completed = FALSE /\ req[r].after_completed = FALSE
        /\ downloads[req[r].download].status = COMPLETED
        /\ downloads[req[q].download].status = COMPLETED
        /\ downloads[req[r].download].file_path \in DOMAIN disk
        /\ downloads[req[q].download].file_path \in DOMAIN disk

\* ----------------------------------------------------- global statistics

\* C28: get_download_stats returns success_rate = completed / total * 100
\* when total > 0 and 0 when there is no DownloadHistory row, with
\* completed + failed <= total, and it does not fail on an empty store.
C28_SuccessRateOfCounts ==
    /\ stats.pc # "raised"
    /\ stats.pc = "returned" =>
          /\ stats.total_downloads > 0 =>
                stats.success_rate[1] * stats.total_downloads =
                   stats.completed_downloads * 100 * stats.success_rate[2]
          /\ stats.total_downloads = 0 => stats.success_rate = Zero
          /\ stats.completed_downloads + stats.failed_downloads
                <= stats.total_downloads

\* ------------------------------------------------------- windowed report

\* The rows of the store of the report that lie in the window.
InWindow == {i \in DOMAIN report.rows : report.rows[i].recent}

\* The rows of the window that belong to the bucket of key k: those of user
\* k, or those without a user for the anonymous bucket.
RowsOf(k) ==
    {i \in InWindow :
        IF k = Anonymous THEN report.rows[i].user = NoUser
        ELSE report.rows[i].user = k}

\* C29: the windowed report puts every DownloadHistory row of the window
\* into exactly one bucket, that of its user or the anonymous bucket when it
\* has no user, so the grand total is the sum of the totals of the buckets
\* and the number of rows of the window; every bucket has
\* completed + failed <= total; and the buckets are listed by non-increasing
\* total.
C29_ReportBuckets ==
    report.pc = "returned" =>
       LET b == report.user_downloads
           l == report.sorted_users
       IN /\ \A i \in InWindow :
                Cardinality({k \in DOMAIN b : i \in RowsOf(b[k].user_id)}) = 1
          /\ \A k \in DOMAIN b :
                /\ b[k].total = Cardinality(RowsOf(b[k].user_id))
                /\ b[k].total > 0
                /\ b[k].completed =
                      Cardinality({i \in RowsOf(b[k].user_id) :
                                      report.rows[i].status = COMPLETED})
                /\ b[k].failed =
                      Cardinality({i \in RowsOf(b[k].user_id) :
                                      report.rows[i].status = FAILED})
                /\ b[k].completed + b[k].failed <= b[k].total
          /\ report.total_downloads = SumOf(b, "total", 1)
          /\ report.total_downloads = Cardinality(InWindow)
          /\ Len(l) = Len(b)
          /\ \A k \in DOMAIN b : \E i \in DOMAIN l : l[i] = b[k]
          /\ \A i, j \in DOMAIN l : i < j => l[i].total >= l[j].total

\* A report of three rows of the window: one without a user, and two of one
\* user, whose bucket is made after the anonymous bucket and listed before it.
C29_Witness ==
    /\ report.pc = "returned"
    /\ Cardinality(InWindow) = 3
    /\ Len(report.user_downloads) = 2
    /\ report.user_downloads[1].user_id = Anonymous
    /\ report.sorted_users[1].user_id # Anonymous
    /\ report.sorted_users[1].total = 2
    /\ report.sorted_users[2].total = 1

\* ------------------------------------------------------ available formats

\* The formats of the fetched info, none when it has no list of formats.
SourceFormats == IF formats.info.has_formats THEN formats.info.formats ELSE <<>>

\* The format has a video codec: a vcodec that is given and is not "none".
HasVideoCodec(fmt) == fmt.vcodec \notin {"none", NoCodec}

\* The source omits the size of the format.
SizeOmitted(fmt) == fmt.filesize \in {Missing, NoValue}

\* C30: the available_formats of a new Video are exactly the formats of the
\* source that have a non-none video codec, in the order of the source
\* (audio-only formats and formats without a video codec are left out), and
\* a format whose size the source omits, its bitrate and the duration being
\* given, gets filesize = bitrate * duration / 8 in whole bytes.
C30_VideoFormatsWithSizes ==
    formats.pc = "returned" =>
       /\ [i \in DOMAIN formats.result |-> formats.result[i].format_id] =
             [i \in DOMAIN SelectSeq(SourceFormats, HasVideoCodec) |->
                 SelectSeq(SourceFormats, HasVideoCodec)[i].format_id]
       /\ \A i \in DOMAIN formats.result :
             LET fmt == SourceFormats[formats.result[i].format_id] IN
             (SizeOmitted(fmt) /\ fmt.tbr # Missing /\ formats.info.duration # Missing) =>
                /\ formats.result[i].filesize * 8 <= fmt.tbr * formats.info.duration
                /\ fmt.tbr * formats.info.duration < (formats.result[i].filesize + 1) * 8

\* ------------------------------------------------------------ upload date

\* The call has fetched metadata of an admissible duration whose upload date
\* is given and is no YYYYMMDD date.
UnparsableDate(c) ==
    /\ calls[c].pc = "done"
    /\ calls[c].info.kind = "info"
    /\ ~TooLong(calls[c].info.duration)
    /\ calls[c].info.upload_date # NoDate
    /\ ~strptime(calls[c].info.upload_date).ok

\* C31: when the fetched upload_date cannot be parsed as a YYYYMMDD date,
\* get_or_create_video still creates and returns the Video row, with
\* upload_date stored as None: the failure of the parsing is never what ends
\* the call, and unless the store raises, the row is created and returned.
C31_UnparsableDateStoredAsNone ==
    \A c \in Calls :
        UnparsableDate(c) =>
           /\ calls[c].caught # "ValueError"
           /\ ~calls[c].raised
           /\ calls[c].caught = "" =>
                 /\ calls[c].created
                 /\ calls[c].result \in 1..Len(catalog)
                 /\ catalog[calls[c].result].video_id = calls[c].video_id
                 /\ catalog[calls[c].result].upload_date = NoDate

\* A call has created its row from metadata whose upload date is the 29th
\* of February of a year that has none; the row holds no upload date.
C31_Witness ==
    \E c \in Calls :
        /\ UnparsableDate(c)
        /\ calls[c].info.upload_date = <<"2", "0", "2", "3", "0", "2", "2", "9">>
        /\ calls[c].created
        /\ catalog[calls[c].result].upload_date = NoDate

\* -------------------------------------------------- file_path and the files

\* C32: in every state reachable by downloads and cleanup passes, also by
\* passes in which the step for a file fails or the file is missing already,
\* every DownloadHistory row with a non-null file_path points to a file
\* that exists on the disk.
C32_FilePathPointsToFile ==
    \A i \in RecordIds :
        downloads[i].file_path # Null => downloads[i].file_path \in DOMAIN disk

\* --------------------------------------------- reuse alongside the cleanup

\* The stored row has a pointer that can be used: a remote file reference,
\* or the path of a file that is on the disk.
ValidPointer(row, files) ==
    \/ row.telegram_file_id # Null
    \/ row.file_path # Null /\ row.file_path \in DOMAIN files

\* C33: when the cleanup scheduler runs interleaved with a download request,
\* the download that the request returns on the reuse path has, at the
\* moment it is returned, a durable pointer that is valid in the store: its
\* file_path is not one the cleanup has deleted and set to None already.
C33_ReusedRecordStillValid ==
    [][\A r \in Requests :
          (req[r].pc = "reuse_stats" /\ req'[r].pc = "done") =>
             ValidPointer(downloads'[req'[r].result], disk')]_vars

\* The gate is active only while current_count is below required_subscribers.
ActiveBelowRequired ==
    subscription_config.active
        => subscription_config.current_count < subscription_config.required_subscribers

\* A step that raises current_count to required_subscribers or beyond leaves
\* the gate inactive and processed_users empty.
ReachingIncrementCloses ==
    (/\ subscription_config'.current_count > subscription_config.current_count
     /\ subscription_config'.current_count >= subscription_config'.required_subscribers)
        => ~subscription_config'.active /\ processed_users' = {}

\* C34: after any sequence of set_subscription, increment_subscription_counter
\* and disable_subscription, an active gate has current_count strictly below
\* required_subscribers, and the increment that makes current_count reach
\* required_subscribers deactivates the gate and empties processed_users in
\* the same step.
C34_ActiveGateBelowRequired ==
    []ActiveBelowRequired /\ [][ReachingIncrementCloses]_vars

\* C35: whenever the gate is active, processed_users holds exactly the users
\* counted in current_count for the active configuration: its size equals
\* current_count and each of its users raised the count of this
\* configuration.
C35_ProcessedUsersAreTheCounted ==
    subscription_config.active
        => /\ Cardinality(processed_users) = subscription_config.current_count
           /\ processed_users = {u \in Users : counted[u] > 0}

\* The events the middleware has dealt with.
Finished == {e \in Events : events[e].pc \in {"done", "raised"}}

\* The event met an inactive gate or a gate without a channel, or comes from
\* an admin or from a user found in processed_users.
Entitled(e) == events[e].open \/ events[e].is_admin \/ events[e].known

\* The event is a check_subscription callback whose membership check
\* succeeded, or a message that starts with /check_subscription.
Confirming(e) ==
    \/ events[e].kind = "check_callback" /\ events[e].member
    \/ events[e].kind = "check_message"

\* The data of the event carry no user or no bot.
WithoutUserOrBot(e) == events[e].user = NoUser \/ ~events[e].bot

\* C36 as stated: the handler is invoked for every event when the gate is
\* inactive or has no channel_id, and for admins and users in
\* processed_users when it is active; for any other user it is invoked only
\* for a check_subscription callback whose membership check succeeds or for a
\* message starting with /check_subscription, and for no other event.
C36_HandlerOnlyForEntitledOrConfirming ==
    \A e \in Finished :
        /\ Entitled(e) => events[e].invoked
        /\ events[e].invoked => Entitled(e) \/ Confirming(e)

\* C36, amended: when the gate is active the handler is invoked as well for
\* every event whose data carry no user or no bot; apart from that it is
\* invoked for every event when the gate is inactive or has no channel_id,
\* for admins and for users in processed_users, and otherwise only for a
\* check_subscription callback whose membership check succeeds or for a
\* message starting with /check_subscription.
C36_HandlerAlsoWithoutUserOrBot ==
    \A e \in Finished :
        /\ Entitled(e) \/ WithoutUserOrBot(e) => events[e].invoked
        /\ events[e].invoked => Entitled(e) \/ WithoutUserOrBot(e) \/ Confirming(e)

\* Under an active gate with a channel, and with a user in processed_users,
\* an ordinary message of another user, whose data carry no bot, has
\* reached the handler.
C36_Witness ==
    \E e \in Finished :
        /\ ~events[e].open /\ events[e].kind = "message" /\ events[e].invoked
        /\ events[e].user # NoUser /\ ~events[e].is_admin /\ ~events[e].bot
        /\ ~events[e].known /\ processed_users # {}

\* increment_subscription_counter runs for the user of event e in this step.
IncrementRuns(e) ==
    /\ events[e].pc = "recheck"
    /\ events'[e].pc # "recheck"
    /\ events'[e].member

\* No user raised current_count more than once since the configuration was
\* set.
CountedAtMostOnce == \A u \in Users : counted[u] <= 1

\* The confirmation of a user who has not been counted under the active
\* configuration raises current_count by exactly one.
UncountedConfirmationCounts ==
    \A e \in Events :
        (/\ IncrementRuns(e)
         /\ subscription_config.active
         /\ counted[events[e].user] = 0)
            => subscription_config'.current_count = subscription_config.current_count + 1

\* A call of increment_subscription_counter while the gate is inactive
\* changes neither the configuration nor processed_users.
InactiveCallChangesNothing ==
    \A e \in Events :
        IncrementRuns(e) /\ ~subscription_config.active
            => UNCHANGED <<subscription_config, processed_users>>

\* C37: while one configuration stays active each user id raises
\* current_count at most once however often increment_subscription_counter
\* runs for it, the confirmations of k distinct uncounted users raise it by
\* exactly k in whatever order they interleave, and a call made while the
\* gate is inactive changes neither the configuration nor processed_users.
C37_EachUserCountedOnce ==
    /\ []CountedAtMostOnce
    /\ [][UncountedConfirmationCounts]_vars
    /\ [][InactiveCallChangesNothing]_vars

\* The positions in the user list of a finished broadcast.
Targets == 1..Len(broadcast.users)

\* The attempts made for the user at position i.
AttemptsFor(i) == {a \in 1..Len(broadcast.attempts) : broadcast.attempts[a].user = i}

\* C38: when process_broadcast_post has finished a broadcast over its user
\* list, every user is accounted for exactly once (a blocked user in
\* blocked_count, any other in sent_count or failed_count according to the
\* one attempt made for the user, so that the three counts add up to the
\* length of the list), no send was attempted for a blocked user, the
\* users after a failed one were attempted all the same, and the FSM state
\* is cleared.
C38_BroadcastAccountsForEveryUser ==
    broadcast.pc = "done" =>
        /\ broadcast.sent_count + broadcast.failed_count + broadcast.blocked_count
               = Len(broadcast.users)
        /\ broadcast.blocked_count = Cardinality({i \in Targets : broadcast.users[i]})
        /\ \A i \in Targets :
               /\ broadcast.users[i] => AttemptsFor(i) = {}
               /\ ~broadcast.users[i] => Cardinality(AttemptsFor(i)) = 1
        /\ broadcast.sent_count
               = Cardinality({a \in 1..Len(broadcast.attempts) : broadcast.attempts[a].sent})
        /\ broadcast.failed_count
               = Cardinality({a \in 1..Len(broadcast.attempts) : ~broadcast.attempts[a].sent})
        /\ broadcast.state = "None"

\* A finished broadcast with a blocked user, a user for whom the copy
\* failed and a later user for whom it succeeded.
C38_Witness ==
    /\ broadcast.pc = "done"
    /\ \E i \in Targets : broadcast.users[i]
    /\ \E a, b \in 1..Len(broadcast.attempts) :
           /\ a < b
           /\ ~broadcast.attempts[a].sent
           /\ broadcast.attempts[b].sent

====
